---- MODULE Spec2Model ----
(***************************************************************************)
(* State-machine model of the multipath bonding engine, node/Bond.cpp.     *)
(*                                                                         *)
(* One Bond object (the bond of one peer) is modelled.  Its fields are the *)
(* fields of the record held by the variable bond; the configuration the   *)
(* registries hand to the bond at construction is the record cfg; the      *)
(* clock (the now argument of every entry point) is the variable now; the  *)
(* _lastIn field of every Path object is pathLastIn.  The remaining        *)
(* variables record what getAppropriatePath returned.                      *)
(*                                                                         *)
(* Every entry point of Bond.cpp is an operator from bond records to bond  *)
(* records, so that a handler that calls others (the background tick calls *)
(* curateBond, estimatePathQuality and the policy tasks) is their          *)
(* composition, and so that the state between two calls can be named.      *)
(*                                                                         *)
(* Not modelled in this development: the QoS tables, the latency and       *)
(* validity sample buffers, the per-flow byte counters, the per-path       *)
(* packet counters and the refractory period.  None of them is read by the *)
(* path selection, curation, flow assignment or active-backup code below,  *)
(* except through estimatePathQuality, whose measured qualities are inputs.*)
(***************************************************************************)
EXTENDS Integers, Sequences, FiniteSets, TLC

(***************************************************************************)
(* Bounds of the model.                                                    *)
(***************************************************************************)
\* Number of path slots of a bond (16 in the program).
ZT_MAX_PEER_NETWORK_PATHS == 3
\* Capacity of the flow table (65535 in the program).
ZT_FLOW_MAX_COUNT == 2
\* Capacity of a slot's map of unacknowledged packets, and the greatest
\* number of records of a QoS packet (128 and 128 in the program).
ZT_QOS_MAX_OUTSTANDING_RECORDS == 2
ZT_QOS_TABLE_SIZE == 2
\* The packets a slot counts between two resets of its counters: frames
\* in either direction, and incoming packets with a QoS record; the
\* latency samples a slot collects.
MaxFrameCount == 1
MaxRecordCount == 3
MaxSamples == 2
\* Age beyond which processBalanceTasks forgets a flow.
ZT_PEER_PATH_EXPIRATION == 5000
\* The clock advances in steps of TimeStep up to MaxTime (up to FlowMaxTime
\* where the flow table is exercised in full).
TimeStep == 5000
MaxTime == 20000
FlowMaxTime == 10000
\* _packetsPerLink of a balance-rr bond (64 by default in the program).
PacketsPerLink == 3
\* Number of getAppropriatePath results kept in the striping record.
MaxSends == 7

(***************************************************************************)
(* Program constants.                                                      *)
(***************************************************************************)
ZT_QOS_NO_FLOW == -1
ZT_BOND_FAILOVER_DEFAULT_INTERVAL == 5000
ZT_BOND_OPTIMIZE_INTERVAL == 15000
ZT_BOND_BACKGROUND_TASK_MIN_INTERVAL == 1000
ZT_BOND_FAILOVER_HANDICAP_PREFERRED == 30
ZT_BOND_FAILOVER_HANDICAP_PRIMARY == 20
ZT_BOND_FAILOVER_HANDICAP_NEGOTIATED == 5000
ZT_PATH_NEGOTIATION_CUTOFF_TIME == 60000
ZT_PATH_NEGOTIATION_TRY_COUNT == 3
ZT_QOS_ACK_DIVISOR == 8
\* int qosRecordTimeout of estimatePathQuality
qosRecordTimeout == 5000
\* _downDelay and _upDelay as setBondParameters leaves them (no template).
DownDelay == 0
UpDelay == 0

MAXP == ZT_MAX_PEER_NETWORK_PATHS
Slots == 0 .. (MAXP - 1)
SlotSeq == [k \in 1 .. MAXP |-> k - 1]

(***************************************************************************)
(* The Path objects and the links they are on.  A Path is a local socket   *)
(* and a remote address; the socket's interface names the link.            *)
(* Path 1: link 1, IPv4.  Path 2: link 2, IPv4.  Path 3: link 1, IPv6.     *)
(***************************************************************************)
NoPath == 0
PathIds == {1, 2, 3, 4}
LinkIds == {1, 2}
PathLink(p) == IF p = 2 THEN 2 ELSE 1
PathIsV4(p) == p # 3

Policies == {"active-backup", "broadcast", "balance-rr", "balance-xor", "balance-aware"}
BalancePolicies == {"balance-rr", "balance-xor", "balance-aware"}
Methods == {"failure", "better", "always", "optimize"}
FlowIds == {-7, 4, 7}
FlowSeq == <<-7, 4, 7>>

VARIABLES
    bond,        \* the fields of the Bond object
    cfg,         \* policy, re-select method and link definitions
    now,         \* the clock
    pathLastIn,  \* Path::_lastIn of every Path object
    lastPath,    \* per flow id: the path getAppropriatePath last returned for
                 \* it since the last curation (tick or nomination)
    evicted,     \* the flow ids removed from the flow table since then
    sent,        \* balance-rr: the results of getAppropriatePath, in order,
                 \* since the bonded set was last rebuilt
    lastCall,    \* the step just taken, where it is a call of a handler of
                 \* negotiation requests, packet records or flow eviction:
                 \* the handler and its arguments
    threads,     \* per thread: the entry point it is running, the mutex
                 \* acquisitions and releases it has still to perform, and
                 \* the mutexes it holds
    remote       \* the peer's end of the bond: its Bond object, the
                 \* negotiation requests in flight in either direction and
                 \* the path each endpoint last asked the other to use

vars == <<bond, cfg, now, pathLastIn, lastPath, evicted, sent, lastCall, threads, remote>>

\* lastCall after a step of any other kind, and a call's record.
NoCall == [op |-> "none", path |-> 0, arg |-> 0]
Call(op, p, arg) == [op |-> op, path |-> p, arg |-> arg]

(***************************************************************************)
(* Configuration read through the registries.                              *)
(***************************************************************************)
\* A link the user did not define is created by getLinkBySocket.
LinkIpvPref(l) == IF l \in cfg.userLinks THEN cfg.ipvPref[l] ELSE 0
LinkPrimary(l) == l \in cfg.userLinks /\ cfg.primary[l]
userHasSpecifiedLinks == cfg.userLinks # {}
userHasSpecifiedPrimaryLink == \E l \in cfg.userLinks : cfg.primary[l]
linkAllowed(l) == cfg.userLinks = {} \/ l \in cfg.userLinks
allowFlowHashing == cfg.policy \in {"balance-xor", "balance-aware"}

(***************************************************************************)
(* NominatedPath                                                           *)
(***************************************************************************)
EmptySlot ==
    [p |-> NoPath, whenNominated |-> 0, lastAliveToggle |-> 0,
     alive |-> FALSE, eligible |-> FALSE, bonded |-> FALSE,
     ipvPref |-> 0, onlyPathOnLink |-> FALSE, assignedFlowCount |-> 0,
     allocation |-> 0, failoverScore |-> 0, negotiated |-> FALSE,
     packetLossRatio |-> 0,
     shouldReallocateFlows |-> FALSE,
     packetsIn |-> 0, packetsOut |-> 0,
     qosStatsOut |-> <<>>, qosStatsIn |-> <<>>,
     packetsReceivedSinceLastQoS |-> 0, lastQoSMeasurement |-> 0,
     latencySamples |-> <<>>]

\* NominatedPath::resetPacketCounts
resetPacketCounts(s) == [s EXCEPT !.packetsIn = 0, !.packetsOut = 0]

allowed(s) ==
    \/ s.ipvPref = 0
    \/ PathIsV4(s.p) /\ s.ipvPref \in {4, 46, 64}
    \/ ~PathIsV4(s.p) /\ s.ipvPref \in {6, 46, 64}

preferred(s) ==
    \/ s.onlyPathOnLink
    \/ PathIsV4(s.p) /\ s.ipvPref \in {4, 46}
    \/ ~PathIsV4(s.p) /\ s.ipvPref \in {6, 64}

getNominatedPathIdx(b, p) ==
    IF \E i \in Slots : b.paths[i].p = p
    THEN CHOOSE i \in Slots : b.paths[i].p = p
    ELSE MAXP

\* uint16_t arithmetic of assignedFlowCount
U16(n) == n % 65536

(***************************************************************************)
(* Bond::addPathToBond                                                     *)
(***************************************************************************)
\* addPathToBond without its setting of the bonded flag.
addPathToBondMapOnly(b, nominatedIdx, bondedIdx) ==
    [b EXCEPT !.bondIdxMap[bondedIdx] = nominatedIdx]

addPathToBond(b, nominatedIdx, bondedIdx) ==
    [b EXCEPT !.bondIdxMap[bondedIdx] = nominatedIdx,
              !.paths[nominatedIdx].bonded = TRUE]

(***************************************************************************)
(* Bond::curateBond                                                        *)
(***************************************************************************)
currEligibilityNoTrial(s, t) ==
    LET acceptableAge == (t - pathLastIn[s.p]) < (ZT_BOND_FAILOVER_DEFAULT_INTERVAL + DownDelay)
        satisfiedUpDelay == (t - s.lastAliveToggle) >= UpDelay
    IN  allowed(s) /\ acceptableAge /\ satisfiedUpDelay

currEligibility(s, t) ==
    LET acceptableAge == (t - pathLastIn[s.p]) < (ZT_BOND_FAILOVER_DEFAULT_INTERVAL + DownDelay)
        satisfiedUpDelay == (t - s.lastAliveToggle) >= UpDelay
        inTrial == (t - s.whenNominated) < ZT_BOND_OPTIMIZE_INTERVAL
    IN  allowed(s) /\ ((acceptableAge /\ satisfiedUpDelay) \/ inTrial)

\* The body of the first loop for one occupied slot.
curateSlot(s, t) ==
    LET e == currEligibility(s, t)
        lost == s.eligible /\ ~e
        bondedAfter == IF lost THEN FALSE ELSE s.bonded
    IN  [s EXCEPT !.alive = (t - pathLastIn[s.p]) < ZT_BOND_FAILOVER_DEFAULT_INTERVAL,
                  !.eligible = e,
                  !.bonded = bondedAfter,
                  !.shouldReallocateFlows =
                      IF lost /\ s.bonded /\ allowFlowHashing
                      THEN bondedAfter
                      ELSE s.shouldReallocateFlows]

\* Whether the first loop sets rebuildBond for this slot.
curateWantsRebuild(s, t) ==
    LET e == currEligibility(s, t)
    IN  \/ e /\ ~s.eligible
        \/ ~e /\ s.eligible /\ s.bonded /\ allowFlowHashing

\* The slots of one link, in index order (one entry of linkMap).
linkSlots(paths, l) ==
    SelectSeq(SlotSeq, LAMBDA i : paths[i].p # NoPath /\ PathLink(paths[i].p) = l)

\* The slots the rebuild adds for one link, by the link's address preference.
linkChoice(paths, l) ==
    LET v == linkSlots(paths, l)
        ipv == LinkIpvPref(l)
        pref == SelectSeq(v, LAMBDA i : paths[i].eligible /\ preferred(paths[i]) /\ allowed(paths[i]))
    IN  IF ipv = 0 THEN SelectSeq(v, LAMBDA i : allowed(paths[i]))
        ELSE IF ipv \in {4, 6}
             THEN SelectSeq(v, LAMBDA i : allowed(paths[i]) /\ paths[i].eligible)
             ELSE IF Len(pref) > 0 THEN pref
                  ELSE SelectSeq(v, LAMBDA i : paths[i].eligible)

RECURSIVE rebuildChoice(_, _)
rebuildChoice(paths, order) ==
    IF order = <<>> THEN <<>>
    ELSE linkChoice(paths, Head(order)) \o rebuildChoice(paths, Tail(order))

RECURSIVE addAll(_, _, _)
addAll(b, adds, k) ==
    IF k > Len(adds) THEN b
    ELSE addAll(addPathToBond(b, adds[k], k - 1), adds, k + 1)

rebuildBondedSet(b) ==
    LET adds == rebuildChoice(b.paths, cfg.linkOrder)
        b1 == addAll(b, adds, 1)
    IN  [b1 EXCEPT !.numBondedPaths = Len(adds),
                   !.rrPacketsSentOnCurrLink =
                       IF cfg.policy = "balance-rr" THEN PacketsPerLink
                       ELSE b1.rrPacketsSentOnCurrLink]

\* Whether this call of curateBond re-forms the bonded set.
curateRebuilds(b, t, rebuildBond) ==
    /\ cfg.policy \in BalancePolicies
    /\ \/ rebuildBond
       \/ \E i \in Slots : b.paths[i].p # NoPath /\ curateWantsRebuild(b.paths[i], t)
       \/ b.numBondedPaths = 0

\* The health status: the counts are taken in the first loop, the number of
\* alive links from the eligible flag each slot has when the loop reaches it.
healthStatus(numAliveLinks, numTotalLinks) ==
    IF cfg.policy = "active-backup" THEN ~(numAliveLinks < 2)
    ELSE IF cfg.policy = "broadcast" THEN ~(numAliveLinks < 1)
    ELSE IF cfg.policy \in BalancePolicies THEN ~(numAliveLinks < numTotalLinks)
    ELSE TRUE

curateBond(b, t, rebuildBond) ==
    LET tmpNumTotalLinks == Cardinality({i \in Slots : b.paths[i].p # NoPath})
        tmpNumAliveLinks ==
            Cardinality({i \in Slots : b.paths[i].p # NoPath /\ b.paths[i].eligible})
        b1 == [b EXCEPT !.paths = [i \in Slots |->
                   IF b.paths[i].p # NoPath THEN curateSlot(b.paths[i], t) ELSE b.paths[i]],
                        !.numAliveLinks = tmpNumAliveLinks,
                        !.numTotalLinks = tmpNumTotalLinks,
                        !.isHealthy = healthStatus(tmpNumAliveLinks, tmpNumTotalLinks)]
    IN  IF curateRebuilds(b, t, rebuildBond)
        THEN rebuildBondedSet(b1)
        ELSE b1

(***************************************************************************)
(* Bond::estimatePathQuality.  q[i] is the quality the measurements give   *)
(* slot i (the weighted sum of the normalised latency, jitter, loss and    *)
(* error terms), as a whole number.                                        *)
(***************************************************************************)
RECURSIVE sumOver(_, _)
sumOver(f, S) ==
    IF S = {} THEN 0
    ELSE LET x == CHOOSE x \in S : TRUE IN f[x] + sumOver(f, S \ {x})

Ceil(n, d) == (n + d - 1) \div d

\* The unacknowledged records of a slot that estimatePathQuality drains:
\* those of qosRecordTimeout or more.
drainQosStatsOut(s, t) ==
    [s EXCEPT !.qosStatsOut =
        [id \in {k \in DOMAIN s.qosStatsOut : (t - s.qosStatsOut[k]) < qosRecordTimeout}
            |-> s.qosStatsOut[id]]]

\* uint64_t currentLostRecords of estimatePathQuality: the number of records
\* it drains from a slot.  The function counts them and reads the count
\* nowhere; no line of Bond.cpp assigns packetLossRatio.
currentLostRecords(s, t) ==
    Cardinality({k \in DOMAIN s.qosStatsOut : (t - s.qosStatsOut[k]) >= qosRecordTimeout})

estimatePathQuality(b, q, t) ==
    LET bondedSlots == {i \in Slots : b.paths[i].p # NoPath /\ b.paths[i].bonded}
        totQuality == sumOver(q, bondedSlots)
        drained(i) == IF b.paths[i].p # NoPath /\ allowed(b.paths[i])
                      THEN drainQosStatsOut(b.paths[i], t)
                      ELSE b.paths[i]
    IN  [b EXCEPT !.paths = [i \in Slots |->
            IF i \in bondedSlots
            THEN [drained(i) EXCEPT !.allocation = Ceil(q[i] * 255, totQuality) % 256]
            ELSE drained(i)]]

(***************************************************************************)
(* Bond::nominatePathToBond                                                *)
(***************************************************************************)
placePathLast(b, p, t) ==
    LET free == {i \in Slots : b.paths[i].p = NoPath}
        i == CHOOSE i \in free : \A j \in free : i >= j
    IN  IF free = {} THEN b
        ELSE [b EXCEPT !.paths[i].p = p, !.paths[i].whenNominated = t,
                       !.paths[i].ipvPref = LinkIpvPref(PathLink(p))]

placePath(b, p, t) ==
    LET free == {i \in Slots : b.paths[i].p = NoPath}
        i == CHOOSE i \in free : \A j \in free : i <= j
        common(j) == b.paths[j].p # NoPath /\ b.paths[j].p # p
                     /\ PathLink(b.paths[j].p) = PathLink(p)
        bFoundCommonLink == \E j \in Slots : common(j)
    IN  IF free = {} THEN b
        ELSE [b EXCEPT !.paths = [j \in Slots |->
                 IF j = i
                 THEN [b.paths[j] EXCEPT !.p = p, !.whenNominated = t,
                                         !.ipvPref = LinkIpvPref(PathLink(p)),
                                         !.onlyPathOnLink = ~bFoundCommonLink]
                 ELSE IF common(j)
                      THEN [b.paths[j] EXCEPT !.onlyPathOnLink = FALSE]
                      ELSE b.paths[j]]]

nominatePathToBondUnchecked(b, p, t, q) ==
    LET alreadyPresent == \E i \in Slots : b.paths[i].p = p
        b1 == IF alreadyPresent THEN b ELSE placePath(b, p, t)
    IN  estimatePathQuality(curateBond(b1, t, TRUE), q, t)

nominatePathToBond(b, p, t, q) ==
    IF ~linkAllowed(PathLink(p)) THEN b
    ELSE LET alreadyPresent == \E i \in Slots : b.paths[i].p = p
             b1 == IF alreadyPresent THEN b ELSE placePath(b, p, t)
         IN  estimatePathQuality(curateBond(b1, t, TRUE), q, t)

(***************************************************************************)
(* Flows.  bond.flows is the map _flows: its domain is the set of flow ids *)
(* in the table, iterated in key order.                                    *)
(***************************************************************************)
\* Flow::Flow(flowId, now)
newFlow(t) == [assignedPath |-> MAXP, lastActivity |-> t]
\* Flow::age(now)
flowAge(fl, t) == t - fl.lastActivity
flowIdsInOrder(b) == SelectSeq(FlowSeq, LAMBDA f : f \in DOMAIN b.flows)
flowsSize(b) == Cardinality(DOMAIN b.flows)
eraseFlow(b, f) ==
    [b EXCEPT !.flows = [g \in (DOMAIN b.flows) \ {f} |-> b.flows[g]]]
putFlow(b, f, fl) ==
    [b EXCEPT !.flows = [g \in (DOMAIN b.flows) \cup {f} |-> IF g = f THEN fl ELSE b.flows[g]]]
decFlowCount(b, i) ==
    [b EXCEPT !.paths[i].assignedFlowCount = U16(b.paths[i].assignedFlowCount - 1)]
incFlowCount(b, i) ==
    [b EXCEPT !.paths[i].assignedFlowCount = U16(b.paths[i].assignedFlowCount + 1)]

\* The C++ remainder of a signed by a positive int, and abs().
CRem(a, n) == IF a >= 0 THEN a % n ELSE 0 - ((0 - a) % n)
Abs(a) == IF a >= 0 THEN a ELSE 0 - a

(***************************************************************************)
(* Bond::forgetFlowsWhenNecessary                                          *)
(***************************************************************************)
\* The loop that stops at the first flow it forgets.
forgetFirstByAge(b, ids, age, t) ==
    LET old == SelectSeq(ids, LAMBDA f : flowAge(b.flows[f], t) > age)
    IN  IF old = <<>> THEN b
        ELSE eraseFlow(decFlowCount(b, b.flows[Head(old)].assignedPath), Head(old))

RECURSIVE forgetByAge(_, _, _, _)
forgetByAge(b, ids, age, t) ==
    IF ids = <<>> THEN b
    ELSE LET f == Head(ids)
         IN  IF flowAge(b.flows[f], t) > age
             THEN forgetByAge(eraseFlow(decFlowCount(b, b.flows[f].assignedPath), f),
                              Tail(ids), age, t)
             ELSE forgetByAge(b, Tail(ids), age, t)

\* The scan for the oldest flow: acc is <<maxAge, oldestFlow>>, oldestFlow
\* a one-element sequence, or empty for _flows.end().
RECURSIVE oldestScan(_, _, _, _)
oldestScan(b, ids, acc, t) ==
    IF ids = <<>> THEN acc
    ELSE LET f == Head(ids)
         IN  IF flowAge(b.flows[f], t) > acc[1]
             THEN oldestScan(b, Tail(ids), <<t - flowAge(b.flows[f], t), <<f>> >>, t)
             ELSE oldestScan(b, Tail(ids), acc, t)

forgetFlowsWhenNecessary(b, age, oldest, t) ==
    IF age # 0 THEN forgetByAge(b, flowIdsInOrder(b), age, t)
    ELSE IF oldest
         THEN LET found == oldestScan(b, flowIdsInOrder(b), <<0, <<>> >>, t)[2]
              IN  IF found = <<>> THEN b
                  ELSE eraseFlow(decFlowCount(b, b.flows[found[1]].assignedPath), found[1])
         ELSE b

(***************************************************************************)
(* Bond::assignFlowToBondedPath.  The result is <<bond, assigned>>.        *)
(* entropy is the byte Utils::getSecureRandom draws.                       *)
(***************************************************************************)
\* The walk over the bonded slots: the chosen slot, or MAXP.
RECURSIVE awareWalk(_, _, _)
awareWalk(b, i, entropy) ==
    IF i >= MAXP THEN MAXP
    ELSE IF b.paths[i].p # NoPath /\ b.paths[i].bonded
         THEN IF entropy <= b.paths[i].allocation THEN i
              ELSE awareWalk(b, i + 1, (entropy - b.paths[i].allocation) % 256)
         ELSE awareWalk(b, i + 1, entropy)

totalIncompleteAllocation(b) ==
    sumOver([i \in Slots |-> b.paths[i].allocation],
            {i \in Slots : b.paths[i].p # NoPath /\ b.paths[i].bonded})

\* xorSlot without the bonded-index map.
xorSlotUnmapped(b, f) ==
    Abs(CRem(f, b.numBondedPaths))

\* _bondIdxMap[abs((int)(flow->id % _numBondedPaths))]
xorSlot(b, f) ==
    b.bondIdxMap[Abs(CRem(f, b.numBondedPaths))]

assignFlowToBondedPath(b, f, t, entropy) ==
    IF cfg.policy = "balance-xor"
    THEN LET slot == xorSlot(b, f)
         IN  <<incFlowCount([b EXCEPT !.flows[f].assignedPath = slot], slot), TRUE>>
    ELSE IF cfg.policy = "balance-aware"
    THEN IF b.numBondedPaths = 0 THEN <<b, FALSE>>
         ELSE LET idx == awareWalk(b, 0, entropy % totalIncompleteAllocation(b))
              IN  IF idx < MAXP
                  THEN <<incFlowCount([b EXCEPT !.flows[f].assignedPath = idx], idx), TRUE>>
                  ELSE <<b, FALSE>>
    ELSE IF cfg.policy = "active-backup"
    THEN <<[b EXCEPT !.flows[f].assignedPath = b.abPathIdx], TRUE>>
    ELSE <<b, TRUE>>

\* assignFlowToBondedPath divides by these: a zero is a crash of the program.
assignDefined(b) ==
    /\ cfg.policy = "balance-xor" => b.numBondedPaths > 0
    /\ cfg.policy = "balance-aware" /\ b.numBondedPaths > 0 => totalIncompleteAllocation(b) > 0

(***************************************************************************)
(* Bond::createFlow.  pathIdx = MAXP: no path given (outgoing packet).     *)
(***************************************************************************)
createFlow(b, pathIdx, f, entropy, t) ==
    IF b.numBondedPaths = 0 THEN b
    ELSE LET b1 == IF flowsSize(b) >= ZT_FLOW_MAX_COUNT
                   THEN forgetFlowsWhenNecessary(b, 0, TRUE, t)
                   ELSE b
             b2 == putFlow(b1, f, newFlow(t))
         IN  IF pathIdx # MAXP
             THEN incFlowCount([b2 EXCEPT !.flows[f].assignedPath = pathIdx], pathIdx)
             ELSE assignFlowToBondedPath(b2, f, t, entropy)[1]

(***************************************************************************)
(* Bond::getAppropriatePath.  The result is <<bond, path>>, path = NoPath  *)
(* for a null SharedPtr.  rnd is _freeRandomByte.                          *)
(***************************************************************************)
\* _paths[_bondIdxMap[k]].p
bondedPathAt(b, k) ==
    IF b.bondIdxMap[k] \in Slots THEN b.paths[b.bondIdxMap[k]].p ELSE NoPath

\* The search for the next usable index of the bonded set.
RECURSIVE rrSearch(_, _, _)
rrSearch(b, tempIdx, searchCount) ==
    IF searchCount >= b.numBondedPaths - 1 THEN b.rrIdx
    ELSE LET nxt == IF tempIdx = b.numBondedPaths - 1 THEN 0 ELSE tempIdx + 1
         IN  IF /\ b.bondIdxMap[nxt] # MAXP
                /\ b.paths[b.bondIdxMap[nxt]].p # NoPath
                /\ b.paths[b.bondIdxMap[nxt]].eligible
             THEN nxt
             ELSE rrSearch(b, nxt, searchCount + 1)

getAppropriatePathRR(b) ==
    IF PacketsPerLink = 0 THEN <<b, NoPath>>
    ELSE IF b.rrPacketsSentOnCurrLink < PacketsPerLink
    THEN <<[b EXCEPT !.rrPacketsSentOnCurrLink = @ + 1], bondedPathAt(b, b.rrIdx)>>
    ELSE LET idx == IF b.numBondedPaths = 1 \/ b.rrIdx >= MAXP - 1 THEN 0
                    ELSE rrSearch(b, b.rrIdx, 0)
             b1 == [b EXCEPT !.rrPacketsSentOnCurrLink = 0, !.rrIdx = idx]
         IN  <<b1, bondedPathAt(b1, idx)>>

getAppropriatePath(b, t, flowId, rnd, entropy) ==
    IF cfg.policy = "active-backup" /\ b.abPathIdx # MAXP /\ b.paths[b.abPathIdx].p # NoPath
    THEN <<b, b.paths[b.abPathIdx].p>>
    ELSE IF cfg.policy = "broadcast" \/ b.numBondedPaths = 0
    THEN <<b, NoPath>>
    ELSE IF cfg.policy = "balance-rr"
    THEN IF PacketsPerLink = 0
         THEN <<b, bondedPathAt(b, rnd % b.numBondedPaths)>>
         ELSE getAppropriatePathRR(b)
    ELSE IF cfg.policy \in {"balance-xor", "balance-aware"}
    THEN IF ~allowFlowHashing \/ flowId = ZT_QOS_NO_FLOW
         THEN <<b, bondedPathAt(b, rnd % b.numBondedPaths)>>
         ELSE LET b1 == IF flowId \in DOMAIN b.flows
                        THEN [b EXCEPT !.flows[flowId].lastActivity = t]
                        ELSE createFlow(b, MAXP, flowId, entropy, t)
              IN  <<b1, b1.paths[b1.flows[flowId].assignedPath].p>>
    ELSE <<b, NoPath>>

(***************************************************************************)
(* Bond::recordIncomingPacket (the flow-learning part and the alive        *)
(* toggle; the packet counters and QoS tables are not modelled).           *)
(***************************************************************************)
\* recordIncomingPacket without its test that the flow is not yet known.
\* The verbs of frames, and whether a packet is one whose QoS record is
\* kept: (packetId & (ZT_QOS_ACK_DIVISOR - 1)) is nonzero and the verb is
\* neither ACK nor QOS_MEASUREMENT.
FrameVerbs == {"ECHO", "FRAME", "EXT_FRAME"}
\* A packet id of which no QoS record is kept.
Unsampled == ZT_QOS_ACK_DIVISOR
shouldRecord(packetId, verb) ==
    (packetId % ZT_QOS_ACK_DIVISOR) # 0 /\ verb \notin {"ACK", "QOS_MEASUREMENT"}

\* The slot of an incoming packet after the handler's QoS accounting.
countIncoming(s, packetId, verb, t) ==
    LET s1 == IF verb \in FrameVerbs THEN [s EXCEPT !.packetsIn = @ + 1] ELSE s
    IN  IF ~allowed(s) THEN s
        ELSE IF shouldRecord(packetId, verb)
        THEN [s1 EXCEPT !.qosStatsIn = [k \in (DOMAIN @) \cup {packetId} |->
                                           IF k = packetId THEN t ELSE @[k]],
                        !.packetsReceivedSinceLastQoS = @ + 1]
        ELSE s1

recordIncomingPacketAnew(b, p, packetId, verb, flowId, t) ==
    LET pathIdx == getNominatedPathIdx(b, p)
        b1 == IF ~b.paths[pathIdx].alive
              THEN [b EXCEPT !.paths[pathIdx].lastAliveToggle = t]
              ELSE b
        b2 == [b1 EXCEPT !.paths[pathIdx] = countIncoming(@, packetId, verb, t)]
    IN  IF pathIdx = MAXP THEN b
        ELSE IF flowId # ZT_QOS_NO_FLOW /\ cfg.policy \in BalancePolicies
             THEN createFlow(b2, pathIdx, flowId, 0, t)
             ELSE b2

recordIncomingPacket(b, p, packetId, verb, flowId, t) ==
    LET pathIdx == getNominatedPathIdx(b, p)
        b1 == IF ~b.paths[pathIdx].alive
              THEN [b EXCEPT !.paths[pathIdx].lastAliveToggle = t]
              ELSE b
        b2 == [b1 EXCEPT !.paths[pathIdx] = countIncoming(@, packetId, verb, t)]
    IN  IF pathIdx = MAXP THEN b
        ELSE IF flowId # ZT_QOS_NO_FLOW /\ cfg.policy \in BalancePolicies
                /\ flowId \notin DOMAIN b2.flows
             THEN createFlow(b2, pathIdx, flowId, 0, t)
             ELSE b2

(***************************************************************************)
(* Bond::recordOutgoingPacket.  The bytes counted on the packet's flow are *)
(* not part of the model.                                                  *)
(***************************************************************************)
recordOutgoingPacketUncapped(b, p, packetId, verb, t) ==
    LET pathIdx == getNominatedPathIdx(b, p)
        s == b.paths[pathIdx]
        s1 == IF verb \in FrameVerbs THEN [s EXCEPT !.packetsOut = @ + 1] ELSE s
        s2 == IF shouldRecord(packetId, verb)
              THEN [s1 EXCEPT !.qosStatsOut = [k \in (DOMAIN @) \cup {packetId} |->
                                                  IF k = packetId THEN t ELSE @[k]]]
              ELSE s1
    IN  IF pathIdx = MAXP THEN b ELSE [b EXCEPT !.paths[pathIdx] = s2]

recordOutgoingPacket(b, p, packetId, verb, t) ==
    LET pathIdx == getNominatedPathIdx(b, p)
        s == b.paths[pathIdx]
        s1 == IF verb \in FrameVerbs THEN [s EXCEPT !.packetsOut = @ + 1] ELSE s
        s2 == IF shouldRecord(packetId, verb)
                 /\ Cardinality(DOMAIN s.qosStatsOut) < ZT_QOS_MAX_OUTSTANDING_RECORDS
              THEN [s1 EXCEPT !.qosStatsOut = [k \in (DOMAIN @) \cup {packetId} |->
                                                  IF k = packetId THEN t ELSE @[k]]]
              ELSE s1
    IN  IF pathIdx = MAXP THEN b ELSE [b EXCEPT !.paths[pathIdx] = s2]

(***************************************************************************)
(* Bond::receivedQoS.  rx is the sequence of the packet's records, each a  *)
(* pair of a packet id (rx_id) and a holding time (rx_ts, a uint16_t).     *)
(* The sample is computed in int: the elapsed time cut to 16 bits, less    *)
(* the holding time, halved with the quotient truncated towards zero.      *)
(***************************************************************************)
latencySample(t, sentAt, holdingTime) ==
    LET d == U16(t - sentAt) - holdingTime
    IN  IF d >= 0 THEN d \div 2 ELSE 0 - ((0 - d) \div 2)

RECURSIVE receivedRecords(_, _, _)
receivedRecords(s, rx, t) ==
    IF rx = <<>> THEN s
    ELSE LET id == Head(rx)[1]
             s1 == IF id \in DOMAIN s.qosStatsOut
                   THEN [s EXCEPT
                            !.latencySamples =
                                Append(@, latencySample(t, s.qosStatsOut[id], Head(rx)[2])),
                            !.qosStatsOut = [k \in (DOMAIN @) \ {id} |-> @[k]]]
                   ELSE s
         IN  receivedRecords(s1, Tail(rx), t)

\* The handler without the erasure of the records it finds.
receivedQoSKeeping(b, p, t, rx) ==
    LET pathIdx == getNominatedPathIdx(b, p)
    IN  IF pathIdx = MAXP THEN b
        ELSE [b EXCEPT !.paths[pathIdx] =
                 [receivedRecords(@, rx, t) EXCEPT !.qosStatsOut = b.paths[pathIdx].qosStatsOut]]

receivedQoS(b, p, t, rx) ==
    LET pathIdx == getNominatedPathIdx(b, p)
    IN  IF pathIdx = MAXP THEN b
        ELSE [b EXCEPT !.paths[pathIdx] = receivedRecords(@, rx, t)]

(***************************************************************************)
(* The QoS packets of the background tick: NominatedPath::needsToSendQoS,  *)
(* Bond::sendQOS_MEASUREMENT and Bond::generateQoSPacket, which takes the  *)
(* first numRecords entries of qosStatsIn in the order of their ids.       *)
(***************************************************************************)
\* _qosSendInterval
QosSendInterval == ZT_BOND_FAILOVER_DEFAULT_INTERVAL * 2

needsToSendQoS(s, t) ==
    /\ \/ s.packetsReceivedSinceLastQoS >= ZT_QOS_TABLE_SIZE
       \/ (t - s.lastQoSMeasurement) > QosSendInterval
    /\ s.packetsReceivedSinceLastQoS # 0

generateQoSPacket(s) ==
    LET numRecords == IF s.packetsReceivedSinceLastQoS < ZT_QOS_TABLE_SIZE
                      THEN s.packetsReceivedSinceLastQoS
                      ELSE ZT_QOS_TABLE_SIZE
        packed == {k \in DOMAIN s.qosStatsIn :
                      Cardinality({j \in DOMAIN s.qosStatsIn : j < k}) < numRecords}
    IN  [s EXCEPT !.qosStatsIn = [k \in (DOMAIN @) \ packed |-> @[k]]]

sendQOS_MEASUREMENT(s, t) ==
    LET s1 == generateQoSPacket(s)
    IN  IF s1.qosStatsIn # s.qosStatsIn
        THEN [s1 EXCEPT !.packetsReceivedSinceLastQoS = 0, !.lastQoSMeasurement = t]
        ELSE s1

(***************************************************************************)
(* Bond::processBalanceTasks.  ent[f] is the byte getSecureRandom draws    *)
(* when flow f is re-assigned.                                             *)
(***************************************************************************)
\* The loop over _flows that moves flows away from slot i.  fromDead: the
\* first loop, which compares the Path of the flow's slot with that of
\* slot i; otherwise the second loop, which compares assignedPath (an
\* integer) with the SharedPtr _paths[i].p, that is, with its conversion
\* to bool: 1, since slot i is occupied.
RECURSIVE reallocateFlows(_, _, _, _, _, _)
reallocateFlows(b, ids, i, fromDead, t, ent) ==
    IF ids = <<>> THEN b
    ELSE LET f == Head(ids)
             hit == IF fromDead
                    THEN b.paths[b.flows[f].assignedPath].p = b.paths[i].p
                    ELSE b.flows[f].assignedPath = 1
             r == assignFlowToBondedPath(b, f, t, ent[f])
         IN  IF hit
             THEN reallocateFlows(IF r[2] THEN decFlowCount(r[1], i) ELSE r[1],
                                  Tail(ids), i, fromDead, t, ent)
             ELSE reallocateFlows(b, Tail(ids), i, fromDead, t, ent)

RECURSIVE reallocateFromDead(_, _, _, _)
reallocateFromDead(b, i, t, ent) ==
    IF i >= MAXP THEN b
    ELSE IF b.paths[i].p # NoPath /\ ~b.paths[i].eligible /\ b.paths[i].shouldReallocateFlows
         THEN LET b1 == reallocateFlows(b, flowIdsInOrder(b), i, TRUE, t, ent)
              IN  reallocateFromDead([b1 EXCEPT !.paths[i].shouldReallocateFlows = FALSE],
                                     i + 1, t, ent)
         ELSE reallocateFromDead(b, i + 1, t, ent)

\* (uint8_t)(0.33 * ((float)totalAllocation / (float)_numBondedPaths))
minimumAllocationValue(b) ==
    LET totalAllocation ==
            sumOver([i \in Slots |-> b.paths[i].allocation],
                    {i \in Slots : b.paths[i].p # NoPath /\ b.paths[i].bonded
                                   /\ b.paths[i].eligible})
    IN  IF b.numBondedPaths = 0 THEN 0
        ELSE ((33 * totalAllocation) \div (100 * b.numBondedPaths)) % 256

RECURSIVE reallocateFromUnderPerforming(_, _, _, _, _)
reallocateFromUnderPerforming(b, i, minAlloc, t, ent) ==
    IF i >= MAXP THEN b
    ELSE IF /\ b.paths[i].p # NoPath /\ b.paths[i].bonded /\ b.paths[i].eligible
            /\ b.paths[i].allocation < minAlloc
            /\ b.paths[i].assignedFlowCount # 0
         THEN LET b1 == reallocateFlows(b, flowIdsInOrder(b), i, FALSE, t, ent)
              IN  reallocateFromUnderPerforming(
                      [b1 EXCEPT !.paths[i].shouldReallocateFlows = FALSE],
                      i + 1, minAlloc, t, ent)
         ELSE reallocateFromUnderPerforming(b, i + 1, minAlloc, t, ent)

processBalanceTasks(b, t, ent) ==
    IF ~allowFlowHashing THEN b
    ELSE LET b1 == IF (t - b.lastFlowExpirationCheck) > ZT_PEER_PATH_EXPIRATION
                   THEN [forgetFlowsWhenNecessary(b, ZT_PEER_PATH_EXPIRATION, FALSE, t)
                            EXCEPT !.lastFlowExpirationCheck = t]
                   ELSE b
             b2 == IF cfg.policy \in {"balance-xor", "balance-aware"}
                   THEN reallocateFromDead(b1, 0, t, ent)
                   ELSE b1
         IN  IF cfg.policy = "balance-aware"
             THEN reallocateFromUnderPerforming(b2, 0, minimumAllocationValue(b2), t, ent)
             ELSE b2

(***************************************************************************)
(* Bond::dequeueNextActiveBackupPath                                       *)
(***************************************************************************)
dequeueNextActiveBackupPath(b, t) ==
    IF b.abFailoverQueue = <<>> THEN b
    ELSE [b EXCEPT !.abPathIdx = Head(b.abFailoverQueue),
                   !.abFailoverQueue = Tail(b.abFailoverQueue),
                   !.lastActiveBackupPathChange = t,
                   !.paths = [i \in Slots |->
                       IF b.paths[i].p # NoPath THEN resetPacketCounts(b.paths[i])
                       ELSE b.paths[i]]]

(***************************************************************************)
(* Bond::abForciblyRotateLink.  The handler reads _paths[_abPathIdx].p     *)
(* before it dequeues, so it is called with an active path set.            *)
(***************************************************************************)
abForciblyRotateLink(b, t) ==
    IF cfg.policy = "active-backup" THEN dequeueNextActiveBackupPath(b, t) ELSE b

(***************************************************************************)
(* Bond::processActiveBackupTasks                                          *)
(***************************************************************************)
Min(S) == CHOOSE x \in S : \A y \in S : x <= y
Max(S) == CHOOSE x \in S : \A y \in S : x >= y

firstEligible(b) ==
    LET c == {i \in Slots : b.paths[i].p # NoPath /\ b.paths[i].eligible}
    IN  IF c = {} THEN MAXP ELSE Min(c)

\* The selection among the paths of primary links.  uninit is the value the
\* uninitialised local nonPreferredPathIdx happens to hold.
primarySelection(b, uninit) ==
    LET c == {i \in Slots : b.paths[i].p # NoPath /\ b.paths[i].eligible
                            /\ LinkPrimary(PathLink(b.paths[i].p))}
        pref == {i \in c : preferred(b.paths[i])}
        visited == IF pref = {} THEN c ELSE {i \in c : i <= Min(pref)}
        nonPref == {i \in visited : ~preferred(b.paths[i])}
        nonPreferredPathIdx == IF nonPref = {} THEN uninit ELSE Max(nonPref)
        bFoundPrimaryLink == c # {}
    IN  IF bFoundPrimaryLink /\ nonPreferredPathIdx # 0 THEN nonPreferredPathIdx
        ELSE IF pref # {} THEN Min(pref)
        ELSE MAXP

abInitialSelection(b, uninit) ==
    IF b.abPathIdx # MAXP THEN b
    ELSE IF userHasSpecifiedLinks /\ userHasSpecifiedPrimaryLink
         THEN [b EXCEPT !.abPathIdx = primarySelection(b, uninit)]
         ELSE [b EXCEPT !.abPathIdx = firstEligible(b)]

\* abPurgeQueue without its removal: the queue is left as it is.
abPurgeQueueKeepingAll(b) == b

\* Remove ineligible paths from the failover link queue.
abPurgeQueue(b) ==
    [b EXCEPT !.abFailoverQueue =
        SelectSeq(b.abFailoverQueue,
                  LAMBDA i : ~(b.paths[i].p # NoPath /\ ~b.paths[i].eligible))]

inQueue(b, i) == \E k \in 1 .. Len(b.abFailoverQueue) :
                     b.paths[b.abFailoverQueue[k]].p = b.paths[i].p

\* The scoring loop (no failover instructions given by the user).
RECURSIVE abScoreAndQueue(_, _)
abScoreAndQueue(b, i) ==
    IF i >= MAXP THEN b
    ELSE LET s == b.paths[i]
             isNegotiated == b.negotiatedPathIdx \in Slots
                             /\ s.p = b.paths[b.negotiatedPathIdx].p
             h1 == IF preferred(s) THEN ZT_BOND_FAILOVER_HANDICAP_PREFERRED ELSE 0
             h2 == IF LinkPrimary(PathLink(s.p)) /\ cfg.abLinkSelectMethod # "optimize"
                   THEN ZT_BOND_FAILOVER_HANDICAP_PRIMARY ELSE h1
             h3 == IF isNegotiated THEN ZT_BOND_FAILOVER_HANDICAP_NEGOTIATED ELSE h2
             b1 == [b EXCEPT !.paths[i].negotiated = isNegotiated,
                             !.paths[i].failoverScore = s.allocation + h3]
             b2 == IF s.p # b.paths[b.abPathIdx].p /\ ~inQueue(b, i)
                   THEN addPathToBond([b1 EXCEPT !.abFailoverQueue = <<i>> \o @], 0, i)
                   ELSE b1
         IN  IF s.p = NoPath \/ ~allowed(s) \/ ~s.eligible
             THEN abScoreAndQueue(b, i + 1)
             ELSE abScoreAndQueue(b2, i + 1)

\* The insertion sort of the queue (by slot index).
RECURSIVE sortInsert(_, _)
sortInsert(sorted, v) ==
    IF sorted = <<>> THEN <<v>>
    ELSE IF sorted[Len(sorted)] > v
         THEN Append(sortInsert(SubSeq(sorted, 1, Len(sorted) - 1), v), sorted[Len(sorted)])
         ELSE Append(sorted, v)

RECURSIVE sortQueue(_, _)
sortQueue(q, k) ==
    IF k > Len(q) THEN q
    ELSE sortQueue(sortInsert(SubSeq(q, 1, k - 1), q[k]) \o SubSeq(q, k + 1, Len(q)), k + 1)

\* The state in which the re-select obligations are decided: the active
\* path chosen if there was none, the queue purged, refilled and sorted.
abPrepare(b, uninit) ==
    LET b1 == abInitialSelection(b, uninit)
        b2 == abScoreAndQueue(abPurgeQueue(b1), 0)
    IN  IF b1.abPathIdx = MAXP THEN b1
        ELSE [b2 EXCEPT !.abFailoverQueue = sortQueue(b2.abFailoverQueue, 1)]

\* abActiveFailed without its test of the eligible flag.
abActiveFailedAnyway(b) ==
    b.paths[b.abPathIdx].p # NoPath

\* abActiveFailed never finding the active path failed.
abActiveFailedNever(b) == FALSE

\* Implicit ZT_BOND_RESELECTION_POLICY_FAILURE
abActiveFailed(b) ==
    b.paths[b.abPathIdx].p # NoPath /\ ~b.paths[b.abPathIdx].eligible

abCurrentPrimary(b) == LinkPrimary(PathLink(b.paths[b.abPathIdx].p))
abFrontPrimary(b) == LinkPrimary(PathLink(b.paths[Head(b.abFailoverQueue)].p))

\* abMethodSwitches without the optimize interval: "optimize" switches to a
\* better head however recent the last change is.
abMethodSwitchesAnyTime(b, t) ==
    LET q == b.abFailoverQueue
        cur == b.paths[b.abPathIdx]
        failoverScoreDifference == b.paths[Head(q)].failoverScore - cur.failoverScore
        thresholdQuantity == cur.allocation \div 10
    IN  IF q = <<>> THEN FALSE
        ELSE IF cfg.abLinkSelectMethod = "always"
        THEN cur.p # NoPath /\ ~abCurrentPrimary(b) /\ abFrontPrimary(b)
        ELSE IF cfg.abLinkSelectMethod = "better"
        THEN /\ cur.p # NoPath /\ ~abCurrentPrimary(b) /\ abFrontPrimary(b)
             /\ b.paths[Head(q)].failoverScore > cur.failoverScore
        ELSE IF cfg.abLinkSelectMethod = "optimize"
        THEN IF b.paths[Head(q)].negotiated THEN TRUE
             ELSE /\ failoverScoreDifference > 0
                  /\ failoverScoreDifference > thresholdQuantity
        ELSE FALSE

\* The condition under which each re-select method dequeues the queue head.
\* "always" and "better" read the front of the queue without checking that
\* it is non-empty; on an empty queue dequeueNextActiveBackupPath returns at
\* once, so whatever is read the state is left as it is.
abMethodSwitches(b, t) ==
    LET q == b.abFailoverQueue
        cur == b.paths[b.abPathIdx]
        failoverScoreDifference == b.paths[Head(q)].failoverScore - cur.failoverScore
        thresholdQuantity == cur.allocation \div 10
    IN  IF q = <<>> THEN FALSE
        ELSE IF cfg.abLinkSelectMethod = "always"
        THEN cur.p # NoPath /\ ~abCurrentPrimary(b) /\ abFrontPrimary(b)
        ELSE IF cfg.abLinkSelectMethod = "better"
        THEN /\ cur.p # NoPath /\ ~abCurrentPrimary(b) /\ abFrontPrimary(b)
             /\ b.paths[Head(q)].failoverScore > cur.failoverScore
        ELSE IF cfg.abLinkSelectMethod = "optimize"
        THEN IF b.paths[Head(q)].negotiated THEN TRUE
             ELSE /\ (t - b.lastActiveBackupPathChange) > ZT_BOND_OPTIMIZE_INTERVAL
                  /\ failoverScoreDifference > 0
                  /\ failoverScoreDifference > thresholdQuantity
        ELSE FALSE

abReselect(b, prevActiveBackupPathIdx, t) ==
    LET b1 == IF abActiveFailed(b) THEN dequeueNextActiveBackupPath(b, t) ELSE b
        b2 == IF prevActiveBackupPathIdx # b1.abPathIdx
              THEN [b1 EXCEPT !.lastActiveBackupPathChange = t]
              ELSE b1
        b3 == IF abMethodSwitches(b2, t) THEN dequeueNextActiveBackupPath(b2, t) ELSE b2
    IN  IF /\ abMethodSwitches(b2, t) /\ cfg.abLinkSelectMethod = "optimize"
           /\ b2.paths[Head(b2.abFailoverQueue)].negotiated
        THEN [b3 EXCEPT !.lastPathNegotiationCheck = t]
        ELSE b3

processActiveBackupTasks(b, t, uninit) ==
    LET b1 == abPrepare(b, uninit)
    IN  IF b1.abPathIdx = MAXP \/ b1.abFailoverQueue = <<>> THEN b1
        ELSE abReselect(b1, b.abPathIdx, t)

(***************************************************************************)
(* Bond::processBackgroundBondTasks, past its early return.                *)
(***************************************************************************)
QualityEstimationInterval == ZT_BOND_FAILOVER_DEFAULT_INTERVAL * 2

\* The bond after the tick's curateBond and estimatePathQuality.
tickCurated(b, t, q) ==
    LET b1 == curateBond([b EXCEPT !.lastBackgroundTaskCheck = t], t, FALSE)
    IN  IF (t - b1.lastQualityEstimation) > QualityEstimationInterval
        THEN estimatePathQuality([b1 EXCEPT !.lastQualityEstimation = t], q, t)
        ELSE b1

(***************************************************************************)
(* Bond::pathNegotiationCheck.  The request that is sent leaves the bond   *)
(* as it is, except for the counters of the requests sent.                 *)
(***************************************************************************)
\* mostPackets(count) is the slot the loop leaves in maxInPathIdx (count =
\* packetsIn) or in maxOutPathIdx (count = packetsOut): the first occupied
\* slot with the greatest count, MAXP where every count is 0.
pathNegotiationCheck(b, t) ==
    LET mostPackets(count(_)) ==
            LET counted == {i \in Slots : b.paths[i].p # NoPath /\ count(b.paths[i]) > 0}
                top == {i \in counted :
                           \A j \in counted : count(b.paths[j]) <= count(b.paths[i])}
            IN  IF counted = {} THEN MAXP ELSE CHOOSE i \in top : \A j \in top : i <= j
        maxInPathIdx == mostPackets(LAMBDA s : s.packetsIn)
        maxOutPathIdx == mostPackets(LAMBDA s : s.packetsOut)
        b0 == [b EXCEPT !.paths = [i \in Slots |->
                  IF b.paths[i].p # NoPath THEN resetPacketCounts(b.paths[i])
                  ELSE b.paths[i]]]
        peerLinksSynchronized ==
            ~(maxInPathIdx # MAXP /\ maxOutPathIdx # MAXP /\ maxInPathIdx # maxOutPathIdx)
        utility == b.paths[maxOutPathIdx].failoverScore - b.paths[maxInPathIdx].failoverScore
                   - (IF b.paths[maxOutPathIdx].negotiated
                      THEN ZT_BOND_FAILOVER_HANDICAP_NEGOTIATED ELSE 0)
        b1 == [b0 EXCEPT !.localUtility = utility]
        b2 == IF (t - b1.lastSentPathNegotiationRequest) > ZT_PATH_NEGOTIATION_CUTOFF_TIME
              THEN [b1 EXCEPT !.numSentPathNegotiationRequests = 0]
              ELSE b1
    IN  IF peerLinksSynchronized THEN b0
        ELSE IF b2.numSentPathNegotiationRequests < ZT_PATH_NEGOTIATION_TRY_COUNT
        THEN IF b2.localUtility >= 0
             THEN [b2 EXCEPT !.numSentPathNegotiationRequests = @ + 1,
                             !.lastSentPathNegotiationRequest = t]
             ELSE b2
        ELSE IF /\ (t - b2.lastSentPathNegotiationRequest) > (2 * ZT_BOND_OPTIMIZE_INTERVAL)
                /\ b2.localUtility = 0
        THEN [b2 EXCEPT !.negotiatedPathIdx = maxInPathIdx]
        ELSE b2

(***************************************************************************)
(* Bond::sendPATH_NEGOTIATION_REQUEST and the request pathNegotiationCheck *)
(* emits.  A request is the slot whose path carries it and the utility it  *)
(* states.                                                                 *)
(***************************************************************************)
NoRequest == [slot |-> MAXP, utility |-> 0]

sendPATH_NEGOTIATION_REQUEST(b, pathIdx) ==
    IF cfg.abLinkSelectMethod # "optimize" THEN NoRequest
    ELSE [slot |-> pathIdx, utility |-> b.localUtility]

\* pathNegotiationCheck calls sendPATH_NEGOTIATION_REQUEST(tPtr,
\* _paths[maxOutPathIdx].p): the parameter is int pathIdx and the argument a
\* SharedPtr<Path>, which reaches it through its truth value.
pathAsIndex(p) == IF p # NoPath THEN 1 ELSE 0

requestPathIdx(b, maxOutPathIdx) == pathAsIndex(b.paths[maxOutPathIdx].p)

mostPacketsIn(b) ==
    LET counted == {i \in Slots : b.paths[i].p # NoPath /\ b.paths[i].packetsIn > 0}
        top == {i \in counted : \A j \in counted : b.paths[j].packetsIn <= b.paths[i].packetsIn}
    IN  IF counted = {} THEN MAXP ELSE Min(top)

mostPacketsOut(b) ==
    LET counted == {i \in Slots : b.paths[i].p # NoPath /\ b.paths[i].packetsOut > 0}
        top == {i \in counted : \A j \in counted : b.paths[j].packetsOut <= b.paths[i].packetsOut}
    IN  IF counted = {} THEN MAXP ELSE Min(top)

\* The request a call of pathNegotiationCheck emits, NoRequest if none.
negotiationRequest(b, t) ==
    LET maxInPathIdx == mostPacketsIn(b)
        maxOutPathIdx == mostPacketsOut(b)
        peerLinksSynchronized ==
            ~(maxInPathIdx # MAXP /\ maxOutPathIdx # MAXP /\ maxInPathIdx # maxOutPathIdx)
        utility == b.paths[maxOutPathIdx].failoverScore - b.paths[maxInPathIdx].failoverScore
                   - (IF b.paths[maxOutPathIdx].negotiated
                      THEN ZT_BOND_FAILOVER_HANDICAP_NEGOTIATED ELSE 0)
        sentRequests == IF (t - b.lastSentPathNegotiationRequest) > ZT_PATH_NEGOTIATION_CUTOFF_TIME
                        THEN 0 ELSE b.numSentPathNegotiationRequests
    IN  IF ~peerLinksSynchronized /\ sentRequests < ZT_PATH_NEGOTIATION_TRY_COUNT /\ utility >= 0
        THEN sendPATH_NEGOTIATION_REQUEST([b EXCEPT !.localUtility = utility],
                                          requestPathIdx(b, maxOutPathIdx))
        ELSE NoRequest

\* The tick's monitoring traffic, as far as it changes the bond: the QoS
\* packets of the slots that are due.
sendAmbientTraffic(b, t) ==
    [b EXCEPT !.paths = [i \in Slots |->
        IF b.paths[i].p # NoPath /\ allowed(b.paths[i]) /\ needsToSendQoS(b.paths[i], t)
        THEN sendQOS_MEASUREMENT(b.paths[i], t)
        ELSE b.paths[i]]]

processBackgroundBondTasks(b, t, q, uninit, ent) ==
    LET b1 == sendAmbientTraffic(tickCurated(b, t, q), t)
        b2 == IF cfg.policy = "active-backup" THEN processActiveBackupTasks(b1, t, uninit)
              ELSE IF cfg.policy \in BalancePolicies THEN processBalanceTasks(b1, t, ent)
              ELSE b1
    IN  IF (t - b2.lastPathNegotiationCheck) > ZT_BOND_OPTIMIZE_INTERVAL
           /\ cfg.allowPathNegotiation
        THEN pathNegotiationCheck([b2 EXCEPT !.lastPathNegotiationCheck = t], t)
        ELSE b2

\* The bond as the tick hands it to pathNegotiationCheck, and the request
\* the tick emits.
beforeNegotiationCheck(b, t, q, uninit, ent) ==
    LET b1 == sendAmbientTraffic(tickCurated(b, t, q), t)
    IN  IF cfg.policy = "active-backup" THEN processActiveBackupTasks(b1, t, uninit)
        ELSE IF cfg.policy \in BalancePolicies THEN processBalanceTasks(b1, t, ent)
        ELSE b1

tickRequest(b, t, q, uninit, ent) ==
    LET b2 == beforeNegotiationCheck(b, t, q, uninit, ent)
    IN  IF (t - b2.lastPathNegotiationCheck) > ZT_BOND_OPTIMIZE_INTERVAL
           /\ cfg.allowPathNegotiation
        THEN negotiationRequest(b2, t)
        ELSE NoRequest

tickDue == (now - bond.lastBackgroundTaskCheck) >= ZT_BOND_BACKGROUND_TASK_MIN_INTERVAL

processBackgroundBondTasksUnthrottled(b, localMultipathSupported, t, q, uninit, ent) ==
    IF ~localMultipathSupported THEN b
    ELSE processBackgroundBondTasks(b, t, q, uninit, ent)

\* The whole handler, with its early return: the peer does not support
\* multipath, or the last tick that ran is less than the minimum interval ago.
processBackgroundBondTasksThrottled(b, localMultipathSupported, t, q, uninit, ent) ==
    IF ~localMultipathSupported
       \/ (t - b.lastBackgroundTaskCheck) < ZT_BOND_BACKGROUND_TASK_MIN_INTERVAL
    THEN b
    ELSE processBackgroundBondTasks(b, t, q, uninit, ent)

(***************************************************************************)
(* Bond::processIncomingPathNegotiationRequest                             *)
(***************************************************************************)
processIncomingPathNegotiationRequestUnguarded(b, p, remoteUtility) ==
    LET pathIdx == getNominatedPathIdx(b, p)
    IN  IF pathIdx = MAXP THEN b
        ELSE IF remoteUtility > b.localUtility
        THEN [b EXCEPT !.negotiatedPathIdx = pathIdx]
        ELSE IF remoteUtility = b.localUtility /\ cfg.peerAddress > cfg.nodeAddress
        THEN [b EXCEPT !.negotiatedPathIdx = pathIdx]
        ELSE b

processIncomingPathNegotiationRequest(b, p, remoteUtility) ==
    LET pathIdx == getNominatedPathIdx(b, p)
    IN  IF cfg.abLinkSelectMethod # "optimize" THEN b
        ELSE IF pathIdx = MAXP THEN b
        ELSE IF b.lastPathNegotiationCheck = 0 THEN b
        ELSE IF remoteUtility > b.localUtility
        THEN [b EXCEPT !.negotiatedPathIdx = pathIdx]
        ELSE IF remoteUtility = b.localUtility /\ cfg.peerAddress > cfg.nodeAddress
        THEN [b EXCEPT !.negotiatedPathIdx = pathIdx]
        ELSE b

\* The handler at an endpoint whose own address is nodeAddress and whose
\* peer's address is peerAddress.
processIncomingPathNegotiationRequestAt(b, p, remoteUtility, nodeAddress, peerAddress) ==
    LET pathIdx == getNominatedPathIdx(b, p)
    IN  IF cfg.abLinkSelectMethod # "optimize" THEN b
        ELSE IF pathIdx = MAXP THEN b
        ELSE IF b.lastPathNegotiationCheck = 0 THEN b
        ELSE IF remoteUtility > b.localUtility
        THEN [b EXCEPT !.negotiatedPathIdx = pathIdx]
        ELSE IF remoteUtility = b.localUtility /\ peerAddress > nodeAddress
        THEN [b EXCEPT !.negotiatedPathIdx = pathIdx]
        ELSE b

\* The utility as the request carries it: outp.append<int16_t>(_localUtility).
Int16(x) == ((x + 32768) % 65536) - 32768

(***************************************************************************)
(* The state after construction (setBondParameters) and the inputs.        *)
(***************************************************************************)
\* negotiatedPathIdx is set by no constructor: neg is what it holds.
InitBond(neg) ==
    [paths |-> [i \in Slots |-> EmptySlot],
     bondIdxMap |-> [k \in Slots |-> MAXP],
     numBondedPaths |-> 0,
     rrIdx |-> 0,
     rrPacketsSentOnCurrLink |-> 0,
     abPathIdx |-> MAXP,
     abFailoverQueue |-> <<>>,
     lastActiveBackupPathChange |-> 0,
     negotiatedPathIdx |-> neg,
     flows |-> [f \in {} |-> newFlow(0)],
     lastBackgroundTaskCheck |-> 0,
     lastQualityEstimation |-> 0,
     lastFlowExpirationCheck |-> 0,
     lastPathNegotiationCheck |-> 0,
     lastSentPathNegotiationRequest |-> 0,
     numSentPathNegotiationRequests |-> 0,
     localUtility |-> 0,
     numAliveLinks |-> 0,
     numTotalLinks |-> 0,
     isHealthy |-> FALSE]

NoLastPath == [f \in FlowIds |-> NoPath]

\* Link definitions: none, or both links defined by the user.
NoUserLinks ==
    [userLinks |-> {}, ipvPref |-> [l \in LinkIds |-> 0],
     primary |-> [l \in LinkIds |-> FALSE], linkOrder |-> <<1, 2>>]
UserLinks(ipv, prim, order) ==
    [userLinks |-> LinkIds, ipvPref |-> ipv, primary |-> prim, linkOrder |-> order]
(***************************************************************************)
(* Construction.  The policy codes are ZT_BOND_POLICY_NONE, 0, and the     *)
(* positions of the five policies in PolicyNames, BALANCE_AWARE being the  *)
(* greatest.  A template is its base policy, the _policy its own           *)
(* construction gave it and the re-selection method the user set.          *)
(***************************************************************************)
PolicyNames == <<"active-backup", "broadcast", "balance-rr", "balance-xor", "balance-aware">>
PolicyName(code) == IF code \in DOMAIN PolicyNames THEN PolicyNames[code] ELSE "none"
PolicyCode(name) ==
    IF \E c \in DOMAIN PolicyNames : PolicyNames[c] = name
    THEN CHOOSE c \in DOMAIN PolicyNames : PolicyNames[c] = name
    ELSE 0
validPolicy(code) == ~(code <= 0 \/ code > Len(PolicyNames))

NoTemplate == [base |-> 0, policy |-> 0, abLinkSelectMethod |-> "optimize"]

\* Bond::setBondParameters, as far as the policy goes: the default policy
\* code it leaves, the _policy of the bond and the re-selection method.
\* held is the method the member holds when no branch assigns it.
setBondParameters(defaultPolicy, held, policy, templateBond, useTemplate) ==
    LET default == IF validPolicy(defaultPolicy) THEN defaultPolicy ELSE 0
        own == IF validPolicy(policy) THEN default ELSE 0
        switched == IF PolicyName(own) = "active-backup" THEN "optimize" ELSE held
    IN  [defaultPolicy |-> default,
         policy |-> own,
         abLinkSelectMethod |-> IF useTemplate THEN templateBond.abLinkSelectMethod
                                ELSE switched]

\* nodeAddress is the address of this node, peerAddress that of the bond's
\* peer; path negotiation is off unless the bond is told to allow it.  The
\* bond runs the policy that was the process-wide default when it was made.
WithPolicy(links, policy, method) ==
    [policy |-> policy, abLinkSelectMethod |-> method,
     defaultPolicy |-> PolicyCode(policy), template |-> NoTemplate,
     userLinks |-> links.userLinks, ipvPref |-> links.ipvPref,
     primary |-> links.primary, linkOrder |-> links.linkOrder,
     allowPathNegotiation |-> FALSE, nodeAddress |-> 1, peerAddress |-> 2]

\* Measured qualities: all paths alike, or slot 0 or slot 1 seven times worse
\* than the others.
UniformQuality == [i \in Slots |-> 1]
QualityVectors == {[i \in Slots |-> IF i = w THEN 1 ELSE 7] : w \in {0, 1, MAXP}}
\* The random bytes drawn when flows are assigned.
NoEntropy == [f \in FlowIds |-> 0]
EntropyBytes == {0, 255}
EntropyVectors == {[f \in FlowIds |-> e] : e \in EntropyBytes}

(***************************************************************************)
(* Mutexes.  Every entry point is described by the Mutex::Lock scopes it   *)
(* opens, in order: one sequence of acquisitions and releases per branch   *)
(* through its code.  _bonds_m and _links_m are static members; _paths_m   *)
(* and _flows_m are members of each Bond.                                  *)
(***************************************************************************)
NumBonds == 1
Bonds == 1..NumBonds
Threads == {"timer", "io1", "io2"}

bonds_m == <<"_bonds_m", 0>>
links_m == <<"_links_m", 0>>
paths_m(b) == <<"_paths_m", b>>
flows_m(b) == <<"_flows_m", b>>

Acquisition(m) == [a |-> "lock", m |-> m]
Releasing(m) == [a |-> "unlock", m |-> m]
\* A Mutex::Lock guard on m whose scope runs body.
Locked(m, body) == <<Acquisition(m)>> \o body \o <<Releasing(m)>>
LockedAny(m, bodies) == {Locked(m, body) : body \in bodies}
Then(firsts, seconds) == {x \o y : x \in firsts, y \in seconds}
Optional(bodies) == {<<>>} \cup bodies

getLinkBySocketLocksTakingBonds == {Locked(links_m, Locked(bonds_m, <<>>))}

getLinkBySocketLocks == {Locked(links_m, <<>>)}
getLinkByNameLocks == {Locked(links_m, <<>>)}
addCustomLinkLocks == {Locked(links_m, <<>>)}
getBondByPeerIdLocks == {Locked(bonds_m, <<>>)}
createTransportTriggeredBondLocks == {Locked(bonds_m, <<>>)}

\* createFlow and assignFlowToBondedPath look the link of the assigned path
\* up; createFlow returns before that when the bond has no links.
createFlowLocks == Optional(getLinkBySocketLocks)

\* An access to the state of bond b that its _paths_m guards: the slots of
\* _paths, _abPathIdx, _abFailoverQueue, _lastActiveBackupPathChange and
\* _numBondedPaths.
Touch(b) == [a |-> "access", m |-> paths_m(b)]
\* A Mutex::Lock guard on _paths_m whose scope works on that state.
pathsScope(b, bodies) == LockedAny(paths_m(b), Then({<<Touch(b)>>}, bodies))

nominatePathToBondLocks(b) == pathsScope(b, getLinkBySocketLocks)
processIncomingPathNegotiationRequestLocks(b) ==
    pathsScope(b, Optional(getLinkBySocketLocks))
receivedQoSLocks(b) == pathsScope(b, {<<>>})

getAppropriatePathLocks(b) ==
    pathsScope(b,
              IF allowFlowHashing
              THEN Optional(LockedAny(flows_m(b), Optional(createFlowLocks)))
              ELSE {<<>>})

recordOutgoingPacketLocksFlowsFirst(b) ==
    LockedAny(flows_m(b), Optional(pathsScope(b, {<<>>})))

recordOutgoingPacketLocks(b) ==
    Then(Optional(pathsScope(b, {<<>>})),
         IF allowFlowHashing THEN Optional({Locked(flows_m(b), <<>>)}) ELSE {<<>>})

recordIncomingPacketLocks(b) ==
    pathsScope(b,
              IF cfg.policy \in {"balance-rr", "balance-xor", "balance-aware"}
              THEN Optional(LockedAny(flows_m(b), Optional(createFlowLocks)))
              ELSE {<<>>})

\* The forced rotation of the active link touches the active-backup state
\* and the slots with no Mutex::Lock of its own, then looks two links up.
abForciblyRotateLinkLocks(b) ==
    IF cfg.policy = "active-backup"
    THEN Then({<<Touch(b)>>}, getLinkBySocketLocks)
    ELSE {<<>>}

processBalanceTasksLocks(b) ==
    IF allowFlowHashing
    THEN Optional(LockedAny(flows_m(b), Optional(getLinkBySocketLocks)))
    ELSE {<<>>}

\* The tick of one bond: it returns at once when called too early, and looks
\* links up (estimatePathQuality, curateBond when it rebuilds the bond)
\* when the bond has paths.
processBackgroundBondTasksLocks(b) ==
    Optional(pathsScope(b,
                       Then(Optional(getLinkBySocketLocks),
                            IF cfg.policy \in {"balance-rr", "balance-xor", "balance-aware"}
                            THEN processBalanceTasksLocks(b)
                            ELSE {<<>>})))

RECURSIVE sweepLocks(_)
sweepLocks(n) ==
    IF n = 0 THEN {<<>>}
    ELSE Then(sweepLocks(n - 1), processBackgroundBondTasksLocks(n))

processBackgroundTasksLocks == LockedAny(bonds_m, sweepLocks(NumBonds))

IdleThread == [op |-> "idle", rest |-> <<>>, held |-> {}]

\* The entry points a thread calls: the timer thread runs the background
\* sweep, the I/O threads everything else.
EntryPoints(t) ==
    IF t = "timer"
    THEN {[op |-> "processBackgroundTasks", locks |-> l] : l \in processBackgroundTasksLocks}
    ELSE UNION {
        {[op |-> "getAppropriatePath", locks |-> l] : l \in getAppropriatePathLocks(b)}
        \cup {[op |-> "recordIncomingPacket", locks |-> l] : l \in recordIncomingPacketLocks(b)}
        \cup {[op |-> "recordOutgoingPacket", locks |-> l] : l \in recordOutgoingPacketLocks(b)}
        \cup {[op |-> "receivedQoS", locks |-> l] : l \in receivedQoSLocks(b)}
        \cup {[op |-> "nominatePathToBond", locks |-> l] : l \in nominatePathToBondLocks(b)}
        \cup {[op |-> "processIncomingPathNegotiationRequest", locks |-> l] :
                 l \in processIncomingPathNegotiationRequestLocks(b)}
        \cup {[op |-> "abForciblyRotateLink", locks |-> l] : l \in abForciblyRotateLinkLocks(b)}
        : b \in Bonds}
      \cup {[op |-> "createTransportTriggeredBond", locks |-> l] : l \in createTransportTriggeredBondLocks}
      \cup {[op |-> "getBondByPeerId", locks |-> l] : l \in getBondByPeerIdLocks}
      \cup {[op |-> "addCustomLink", locks |-> l] : l \in addCustomLinkLocks}
      \cup {[op |-> "getLinkBySocket", locks |-> l] : l \in getLinkBySocketLocks}
      \cup {[op |-> "getLinkByName", locks |-> l] : l \in getLinkByNameLocks}

\* A negotiation request on the wire: the path it travels on and the
\* utility it states.  The peer's end before anything has happened there.
NoMessage == [path |-> NoPath, utility |-> 0]
NoRemote ==
    [bond |-> InitBond(MAXP), toRemote |-> NoMessage, toLocal |-> NoMessage,
     askedByLocal |-> NoPath, askedByRemote |-> NoPath]

InitWith(cfgs, negs) ==
    /\ cfg \in cfgs
    /\ \E neg \in negs : bond = InitBond(neg)
    /\ now = TimeStep
    /\ pathLastIn = [p \in PathIds |-> 0]
    /\ lastPath = NoLastPath
    /\ evicted = {}
    /\ sent = <<>>
    /\ lastCall = NoCall
    /\ threads = [t \in Threads |-> IdleThread]
    /\ remote = NoRemote

(***************************************************************************)
(* Actions: one per entry point.                                           *)
(***************************************************************************)
\* The clock advances, up to horizon.  The timer thread runs the background
\* tick at least once per TimeStep.
AdvanceClock(horizon) ==
    /\ now + TimeStep <= horizon
    /\ bond.lastBackgroundTaskCheck = now
    /\ now' = now + TimeStep
    /\ lastCall' = NoCall
    /\ UNCHANGED <<threads, remote>>
    /\ UNCHANGED <<bond, cfg, pathLastIn, lastPath, evicted, sent>>

\* The clock moves on to the next of the given times, once no tick is due.
\* The timer thread calls the tick, due or not, for a peer that supports
\* multipath or not.
CallProcessBackgroundBondTasks(localMultipathSupported, q, uninit, ent) ==
    LET runs == localMultipathSupported /\ tickDue
    IN  /\ bond' = processBackgroundBondTasksThrottled(bond, localMultipathSupported, now,
                                                       q, uninit, ent)
        /\ lastPath' = IF runs THEN NoLastPath ELSE lastPath
        /\ evicted' = IF runs THEN {} ELSE evicted
        /\ sent' = IF runs /\ curateRebuilds(bond, now, FALSE) THEN <<>> ELSE sent
        /\ lastCall' = Call("processBackgroundBondTasks", 0, localMultipathSupported)
        /\ UNCHANGED <<threads, remote>>
        /\ UNCHANGED <<cfg, now, pathLastIn>>

\* nominatePathToBond is called with any path of the peer, nominated before
\* or not, on an allowed link or not.
Nominate(p, q) ==
    /\ bond' = nominatePathToBond(bond, p, now, q)
    /\ lastPath' = NoLastPath
    /\ evicted' = {}
    /\ sent' = <<>>
    /\ lastCall' = Call("nominatePathToBond", p, 0)
    /\ UNCHANGED <<threads, remote>>
    /\ UNCHANGED <<cfg, now, pathLastIn>>

\* Time passes, whether a tick is due or not: now becomes a later time of times.
Wait(times) ==
    /\ \E t \in times : t > now /\ now' = t
    /\ lastCall' = NoCall
    /\ UNCHANGED <<threads, remote>>
    /\ UNCHANGED <<bond, cfg, pathLastIn, lastPath, evicted, sent>>

Elapse(times) ==
    /\ ~tickDue
    /\ \E t \in times : /\ t > now
                         /\ \A u \in times : u > now => t <= u
                         /\ now' = t
    /\ lastCall' = NoCall
    /\ UNCHANGED <<threads, remote>>
    /\ UNCHANGED <<bond, cfg, pathLastIn, lastPath, evicted, sent>>

\* The paths a peer has are discovered in the order of their numbers; a
\* path already in a slot can be nominated again.
discovered(p, peerPaths) ==
    \A o \in peerPaths : o < p => getNominatedPathIdx(bond, o) # MAXP

NominatePathToBond(p, q) ==
    /\ bond' = nominatePathToBond(bond, p, now, q)
    /\ lastPath' = NoLastPath
    /\ evicted' = {}
    /\ sent' = <<>>
    /\ lastCall' = NoCall
    /\ UNCHANGED <<threads, remote>>
    /\ UNCHANGED <<cfg, now, pathLastIn>>

\* A packet of flow flowId arrives on path p: Path::received, then
\* Bond::recordIncomingPacket.
RecordIncomingPacket(p, packetId, verb, flowId) ==
    /\ getNominatedPathIdx(bond, p) # MAXP
    /\ pathLastIn' = [pathLastIn EXCEPT ![p] = now]
    /\ bond' = recordIncomingPacket(bond, p, packetId, verb, flowId, now)
    /\ \A i \in Slots : /\ bond'.paths[i].packetsIn <= MaxFrameCount
                         /\ bond'.paths[i].packetsReceivedSinceLastQoS <= MaxRecordCount
    /\ evicted' = evicted \cup ((DOMAIN bond.flows) \ (DOMAIN bond'.flows))
    /\ lastCall' = NoCall
    /\ UNCHANGED <<threads, remote>>
    /\ UNCHANGED <<cfg, now, lastPath, sent>>

GetAppropriatePath(flowId, rnd, entropy) ==
    /\ Len(sent) < MaxSends
    /\ flowId # ZT_QOS_NO_FLOW /\ flowId \notin DOMAIN bond.flows => assignDefined(bond)
    /\ LET r == getAppropriatePath(bond, now, flowId, rnd, entropy)
       IN  /\ bond' = r[1]
           /\ lastPath' = IF flowId \in FlowIds
                           THEN [lastPath EXCEPT ![flowId] = r[2]]
                           ELSE lastPath
           /\ evicted' = (evicted \cup ((DOMAIN bond.flows) \ (DOMAIN r[1].flows))) \ {flowId}
           /\ sent' = IF cfg.policy = "balance-rr" THEN Append(sent, r[2]) ELSE sent
    /\ lastCall' = NoCall
    /\ UNCHANGED <<threads, remote>>
    /\ UNCHANGED <<cfg, now, pathLastIn>>

\* getAppropriatePath for a packet of flow flowId, leaving on record the byte
\* Utils::getSecureRandom gave assignFlowToBondedPath.
GetAppropriatePathDrawing(flowId, entropy) ==
    /\ Len(sent) < MaxSends
    /\ flowId # ZT_QOS_NO_FLOW /\ flowId \notin DOMAIN bond.flows => assignDefined(bond)
    /\ LET r == getAppropriatePath(bond, now, flowId, 0, entropy)
       IN  /\ bond' = r[1]
           /\ lastPath' = IF flowId \in FlowIds
                           THEN [lastPath EXCEPT ![flowId] = r[2]]
                           ELSE lastPath
           /\ evicted' = (evicted \cup ((DOMAIN bond.flows) \ (DOMAIN r[1].flows))) \ {flowId}
           /\ sent' = IF cfg.policy = "balance-rr" THEN Append(sent, r[2]) ELSE sent
    /\ lastCall' = Call("getAppropriatePath", flowId, entropy)
    /\ UNCHANGED <<threads, remote>>
    /\ UNCHANGED <<cfg, now, pathLastIn>>

ProcessBackgroundBondTasks(q, uninit, ent) ==
    /\ tickDue
    /\ bond' = processBackgroundBondTasks(bond, now, q, uninit, ent)
    /\ lastPath' = NoLastPath
    /\ evicted' = {}
    /\ sent' = IF curateRebuilds(bond, now, FALSE) THEN <<>> ELSE sent
    /\ lastCall' = NoCall
    /\ UNCHANGED <<threads, remote>>
    /\ UNCHANGED <<cfg, now, pathLastIn>>

\* The tick of a bond whose peer supports multipath, leaving on record the
\* measured qualities it was given, the active slot it found and the time of
\* the last change of the active path it found.
ReselectingTick(q) ==
    /\ tickDue
    /\ bond' = processBackgroundBondTasks(bond, now, q, 0, NoEntropy)
    /\ lastPath' = NoLastPath
    /\ evicted' = {}
    /\ sent' = IF curateRebuilds(bond, now, FALSE) THEN <<>> ELSE sent
    /\ lastCall' = Call("tick", bond.abPathIdx, <<q, bond.lastActiveBackupPathChange>>)
    /\ UNCHANGED <<threads, remote>>
    /\ UNCHANGED <<cfg, now, pathLastIn>>

\* The user rotates the active link: Bond::abForciblyRotateLink.
AbForciblyRotateLink ==
    /\ bond.abPathIdx \in Slots
    /\ bond.paths[bond.abPathIdx].p # NoPath
    /\ bond' = abForciblyRotateLink(bond, now)
    /\ lastCall' = Call("abForciblyRotateLink", 0, 0)
    /\ UNCHANGED <<threads, remote>>
    /\ UNCHANGED <<cfg, now, pathLastIn, lastPath, evicted, sent>>

(***************************************************************************)
(* The two ends of a bond.  Both endpoints run the same handlers on their  *)
(* own Bond objects; a path is heard by both at the same times, so that    *)
(* pathLastIn serves both.                                                 *)
(***************************************************************************)
\* The request a tick puts on the wire: r is the request the tick makes and
\* before the Bond as the negotiation check finds it.
wireRequest(before, r, inFlight) ==
    IF r = NoRequest \/ before.paths[r.slot].p = NoPath THEN inFlight
    ELSE [path |-> before.paths[r.slot].p, utility |-> Int16(r.utility)]

\* The path that tick asks the peer to use: the one the endpoint sends most
\* of its frames on.
askedPath(before, r, asked) ==
    IF r = NoRequest THEN asked ELSE before.paths[mostPacketsOut(before)].p

\* A keepalive passes in both directions on path p, nominated at both ends.
Heard(p) ==
    /\ getNominatedPathIdx(bond, p) # MAXP
    /\ getNominatedPathIdx(remote.bond, p) # MAXP
    /\ pathLastIn[p] # now
    /\ pathLastIn' = [pathLastIn EXCEPT ![p] = now]
    /\ bond' = recordIncomingPacket(bond, p, Unsampled, "HELLO", ZT_QOS_NO_FLOW, now)
    /\ remote' = [remote EXCEPT !.bond =
           recordIncomingPacket(@, p, Unsampled, "HELLO", ZT_QOS_NO_FLOW, now)]
    /\ lastCall' = NoCall
    /\ UNCHANGED <<cfg, now, lastPath, evicted, sent, threads>>

\* This endpoint sends a frame on path p and the peer receives it.
LocalFrame(p) ==
    /\ pathLastIn[p] = now
    /\ bond' = recordOutgoingPacket(bond, p, Unsampled, "FRAME", now)
    /\ remote' = [remote EXCEPT !.bond =
           recordIncomingPacket(@, p, Unsampled, "FRAME", ZT_QOS_NO_FLOW, now)]
    /\ \A i \in Slots : /\ bond'.paths[i].packetsOut <= MaxFrameCount
                         /\ remote'.bond.paths[i].packetsIn <= MaxFrameCount
    /\ lastCall' = NoCall
    /\ UNCHANGED <<cfg, now, pathLastIn, lastPath, evicted, sent, threads>>

\* The peer sends a frame on path p and this endpoint receives it.
RemoteFrame(p) ==
    /\ pathLastIn[p] = now
    /\ remote' = [remote EXCEPT !.bond = recordOutgoingPacket(@, p, Unsampled, "FRAME", now)]
    /\ bond' = recordIncomingPacket(bond, p, Unsampled, "FRAME", ZT_QOS_NO_FLOW, now)
    /\ \A i \in Slots : /\ bond'.paths[i].packetsIn <= MaxFrameCount
                         /\ remote'.bond.paths[i].packetsOut <= MaxFrameCount
    /\ lastCall' = NoCall
    /\ UNCHANGED <<cfg, now, pathLastIn, lastPath, evicted, sent, threads>>

\* The background tick of this endpoint; the request it emits is in flight.
LocalTick ==
    /\ tickDue
    /\ bond' = processBackgroundBondTasks(bond, now, UniformQuality, 0, NoEntropy)
    /\ \E before \in {beforeNegotiationCheck(bond, now, UniformQuality, 0, NoEntropy)},
          r \in {tickRequest(bond, now, UniformQuality, 0, NoEntropy)} :
          remote' = [remote EXCEPT !.toRemote = wireRequest(before, r, @),
                                   !.askedByLocal = askedPath(before, r, @)]
    /\ lastCall' = NoCall
    /\ UNCHANGED <<cfg, now, pathLastIn, lastPath, evicted, sent, threads>>

\* The background tick of the peer.
RemoteTick ==
    /\ (now - remote.bond.lastBackgroundTaskCheck) >= ZT_BOND_BACKGROUND_TASK_MIN_INTERVAL
    /\ \E before \in {beforeNegotiationCheck(remote.bond, now, UniformQuality, 0, NoEntropy)},
          r \in {tickRequest(remote.bond, now, UniformQuality, 0, NoEntropy)} :
          remote' = [remote EXCEPT
              !.bond = processBackgroundBondTasks(@, now, UniformQuality, 0, NoEntropy),
              !.toLocal = wireRequest(before, r, @),
              !.askedByRemote = askedPath(before, r, @)]
    /\ lastCall' = NoCall
    /\ UNCHANGED <<bond, cfg, now, pathLastIn, lastPath, evicted, sent, threads>>

\* The request in flight arrives at this endpoint, at the peer.
DeliverToLocal ==
    /\ remote.toLocal # NoMessage
    /\ bond' = processIncomingPathNegotiationRequest(bond, remote.toLocal.path,
                                                      remote.toLocal.utility)
    /\ remote' = [remote EXCEPT !.toLocal = NoMessage]
    /\ lastCall' = Call("request", remote.toLocal.path, remote.toLocal.utility)
    /\ UNCHANGED <<cfg, now, pathLastIn, lastPath, evicted, sent, threads>>

DeliverToRemote ==
    /\ remote.toRemote # NoMessage
    /\ remote' = [remote EXCEPT
           !.bond = processIncomingPathNegotiationRequestAt(
                        @, remote.toRemote.path, remote.toRemote.utility,
                        cfg.peerAddress, cfg.nodeAddress),
           !.toRemote = NoMessage]
    /\ lastCall' = Call("remoteRequest", remote.toRemote.path, remote.toRemote.utility)
    /\ UNCHANGED <<bond, cfg, now, pathLastIn, lastPath, evicted, sent, threads>>

\* Time passes once both endpoints have run the tick that was due.
PairElapse(times) ==
    /\ (now - remote.bond.lastBackgroundTaskCheck) < ZT_BOND_BACKGROUND_TASK_MIN_INTERVAL
    /\ Elapse(times)

\* A packet is sent on path p: Bond::recordOutgoingPacket.
RecordOutgoingPacket(p, packetId, verb) ==
    /\ bond' = recordOutgoingPacket(bond, p, packetId, verb, now)
    /\ \A i \in Slots : bond'.paths[i].packetsOut <= MaxFrameCount
    /\ lastCall' = Call("recordOutgoingPacket", p, <<packetId, verb>>)
    /\ UNCHANGED <<threads, remote>>
    /\ UNCHANGED <<cfg, now, pathLastIn, lastPath, evicted, sent>>

\* A QoS packet with the records rx arrives on path p: Bond::receivedQoS.
ReceivedQoS(p, rx) ==
    /\ bond' = receivedQoS(bond, p, now, rx)
    /\ \A i \in Slots : Len(bond'.paths[i].latencySamples) <= MaxSamples
    /\ lastCall' = Call("receivedQoS", p, rx)
    /\ UNCHANGED <<threads, remote>>
    /\ UNCHANGED <<cfg, now, pathLastIn, lastPath, evicted, sent>>

\* A path negotiation request of the peer arrives on path p.
ProcessIncomingPathNegotiationRequest(p, remoteUtility) ==
    /\ bond' = processIncomingPathNegotiationRequest(bond, p, remoteUtility)
    /\ lastCall' = Call("request", p, remoteUtility)
    /\ UNCHANGED <<threads, remote>>
    /\ UNCHANGED <<cfg, now, pathLastIn, lastPath, evicted, sent>>

\* The values the uninitialised nonPreferredPathIdx can hold, where read.
UninitValues ==
    IF cfg.policy = "active-backup" /\ bond.abPathIdx = MAXP /\ userHasSpecifiedPrimaryLink
    THEN 0 .. MAXP
    ELSE {0}

(***************************************************************************)
(* Active-backup bonds over paths 1 and 2 (two links): no link defined by  *)
(* the user, or both defined and one of them primary.                      *)
(***************************************************************************)
ABPaths == {1, 2}
ABLinks ==
    {NoUserLinks}
    \cup {UserLinks([l \in LinkIds |-> 0], [l \in LinkIds |-> l = pl], <<1, 2>>) : pl \in LinkIds}
ABConfigs == {WithPolicy(l, "active-backup", m) : l \in ABLinks, m \in Methods}

InitAB == InitWith(ABConfigs, {0, MAXP})

NextAB ==
    \/ AdvanceClock(MaxTime)
    \/ \E p \in ABPaths : discovered(p, ABPaths) /\ NominatePathToBond(p, UniformQuality)
    \/ \E p \in ABPaths : RecordIncomingPacket(p, Unsampled, "HELLO", ZT_QOS_NO_FLOW)
    \/ \E u \in UninitValues : ProcessBackgroundBondTasks(UniformQuality, u, NoEntropy)

SpecAB == InitAB /\ [][NextAB]_vars

(***************************************************************************)
(* Active-backup bonds that allow path negotiation, over paths 1 and 2,    *)
(* re-selecting by "optimize": this node's address is the smaller or the   *)
(* larger of the two.  Frames are received and sent on either path, and   *)
(* the peer's requests carry a utility below, at or above the local one.   *)
(***************************************************************************)
NegAddresses == {1, 2}
NegConfigs ==
    {[WithPolicy(NoUserLinks, "active-backup", m)
          EXCEPT !.allowPathNegotiation = TRUE, !.nodeAddress = a, !.peerAddress = 3 - a] :
         m \in {"optimize"}, a \in NegAddresses}
RemoteUtilities == {bond.localUtility - 1, bond.localUtility, bond.localUtility + 1}

InitNeg == InitWith(NegConfigs, {MAXP})

NextNeg ==
    \/ AdvanceClock(MaxTime)
    \/ \E p \in ABPaths : discovered(p, ABPaths) /\ NominatePathToBond(p, UniformQuality)
    \/ \E p \in ABPaths : RecordIncomingPacket(p, Unsampled, "FRAME", ZT_QOS_NO_FLOW)
    \/ \E p \in ABPaths : RecordOutgoingPacket(p, Unsampled, "FRAME")
    \/ ProcessBackgroundBondTasks(UniformQuality, 0, NoEntropy)
    \/ \E p \in ABPaths, u \in RemoteUtilities : ProcessIncomingPathNegotiationRequest(p, u)

SpecNeg == InitNeg /\ [][NextNeg]_vars

(***************************************************************************)
(* Balance-xor bonds over paths 1 and 3 (one link, IPv4 and IPv6), with    *)
(* the flow table exercised in full: three outgoing flows, one of them     *)
(* also learned from incoming packets.  The link is undefined, or defined  *)
(* with a preference for IPv4 or for IPv6.                                 *)
(***************************************************************************)
FlowPaths == {1, 3}
PreferringLinks(ipv) == UserLinks([l \in LinkIds |-> ipv], [l \in LinkIds |-> FALSE], <<1, 2>>)
FlowConfigs ==
    {WithPolicy(l, "balance-xor", "optimize") :
         l \in {NoUserLinks, PreferringLinks(46), PreferringLinks(64)}}
\* What arrives: packets of flow 4.
InboundFlowIds == {4}

InitFlow == InitWith(FlowConfigs, {MAXP})

NextFlow ==
    \/ AdvanceClock(FlowMaxTime)
    \/ \E p \in FlowPaths : discovered(p, FlowPaths) /\ NominatePathToBond(p, UniformQuality)
    \/ \E p \in FlowPaths, f \in InboundFlowIds : RecordIncomingPacket(p, Unsampled, "HELLO", f)
    \/ \E f \in FlowIds : GetAppropriatePath(f, 0, 0)
    \/ ProcessBackgroundBondTasks(UniformQuality, 0, NoEntropy)

SpecFlow == InitFlow /\ [][NextFlow]_vars

(***************************************************************************)
(* A balance-aware bond over paths 1 and 3 (the link undefined): the       *)
(* quality estimate of each tick finds slot 0 weak or every slot alike,    *)
(* two outgoing flows, one of them also learned from incoming packets.     *)
(***************************************************************************)
AwareConfigs == {WithPolicy(NoUserLinks, "balance-aware", "optimize")}
AwareFlowIds == {4, 7}
AwareQualities == {q \in QualityVectors : q[1] = 7}

InitAware == InitWith(AwareConfigs, {MAXP})

NextAware ==
    \/ AdvanceClock(FlowMaxTime)
    \/ \E p \in FlowPaths, q \in AwareQualities :
           discovered(p, FlowPaths) /\ NominatePathToBond(p, q)
    \/ \E p \in FlowPaths, f \in InboundFlowIds : RecordIncomingPacket(p, Unsampled, "HELLO", f)
    \/ \E f \in AwareFlowIds, e \in EntropyBytes : GetAppropriatePath(f, 0, e)
    \/ \E q \in AwareQualities, ent \in EntropyVectors :
           ProcessBackgroundBondTasks(q, 0, ent)

SpecAware == InitAware /\ [][NextAware]_vars

(***************************************************************************)
(* The weighted walk of balance-aware bonds over paths 1 and 3 of measured *)
(* qualities 1 and 7, that is allocations 32 and 224 or 224 and 32 once    *)
(* both are bonded, with random bytes on and next to the segment borders.  *)
(***************************************************************************)
WalkEntropy == {0, 31, 32, 33, 223, 224, 225, 255}
WalkQualities == {q \in AwareQualities : q[0] # q[1]}

NextWalk ==
    \/ AdvanceClock(FlowMaxTime)
    \/ \E p \in FlowPaths, q \in WalkQualities :
           discovered(p, FlowPaths) /\ NominatePathToBond(p, q)
    \/ \E p \in FlowPaths : RecordIncomingPacket(p, Unsampled, "HELLO", ZT_QOS_NO_FLOW)
    \/ \E f \in AwareFlowIds, e \in WalkEntropy : GetAppropriatePathDrawing(f, e)
    \/ \E q \in WalkQualities : ProcessBackgroundBondTasks(q, 0, NoEntropy)

SpecWalk == InitAware /\ [][NextWalk]_vars

(***************************************************************************)
(* Construction of a bond.  No bond exists at first (policy "none"); the   *)
(* process-wide default policy is unset, one of three policies or out of   *)
(* range.  The user may define one policy template; a bond is made from a  *)
(* policy code, valid or not, or from the template.                        *)
(***************************************************************************)
CtorDefaults == {0, 1, 3, 5, 6, 255}
CtorCodes == (0 - 1) .. (Len(PolicyNames) + 1)
CtorMethods == {"optimize", "always"}

InitCtor ==
    InitWith({[WithPolicy(NoUserLinks, "none", m) EXCEPT !.defaultPolicy = d] :
                  d \in CtorDefaults, m \in CtorMethods}, {MAXP})

made(constructed) ==
    [cfg EXCEPT !.defaultPolicy = constructed.defaultPolicy,
                !.policy = PolicyName(constructed.policy),
                !.abLinkSelectMethod = constructed.abLinkSelectMethod]

\* Bond(renv, basePolicy, policyAlias, peer): a template of base policy
\* base, on which the user then sets the re-selection method.
AddCustomPolicy(base, method) ==
    /\ cfg.template = NoTemplate
    /\ lastCall.op # "Bond"
    /\ LET t == setBondParameters(cfg.defaultPolicy, cfg.abLinkSelectMethod, base,
                                  NoTemplate, FALSE)
       IN  cfg' = [cfg EXCEPT
                      !.defaultPolicy = t.defaultPolicy,
                      !.template = [base |-> base, policy |-> t.policy,
                                    abLinkSelectMethod |-> method]]
    /\ lastCall' = Call("addCustomPolicy", base, 0)
    /\ UNCHANGED <<bond, now, pathLastIn, lastPath, evicted, sent, threads, remote>>

\* Bond(renv, policy, peer)
NewBond(policy) ==
    /\ lastCall.op # "Bond"
    /\ cfg' = made(setBondParameters(cfg.defaultPolicy, cfg.abLinkSelectMethod, policy,
                                     NoTemplate, FALSE))
    /\ bond' = InitBond(MAXP)
    /\ lastCall' = Call("Bond", policy, <<>>)
    /\ UNCHANGED <<now, pathLastIn, lastPath, evicted, sent, threads, remote>>

\* Bond(renv, originalBond, peer): setBondParameters(originalBond->_policy,
\* originalBond, true)
NewBondFromTemplate ==
    /\ lastCall.op # "Bond"
    /\ cfg.template # NoTemplate
    /\ cfg' = made(setBondParameters(cfg.defaultPolicy, cfg.abLinkSelectMethod,
                                     cfg.template.policy, cfg.template, TRUE))
    /\ bond' = InitBond(MAXP)
    /\ lastCall' = Call("Bond", cfg.template.base, <<cfg.template.abLinkSelectMethod>>)
    /\ UNCHANGED <<now, pathLastIn, lastPath, evicted, sent, threads, remote>>

NextCtor ==
    \/ \E base \in DOMAIN PolicyNames, m \in CtorMethods : AddCustomPolicy(base, m)
    \/ \E policy \in CtorCodes : NewBond(policy)
    \/ NewBondFromTemplate

SpecCtor == InitCtor /\ [][NextCtor]_vars

(***************************************************************************)
(* Balance-xor bonds over paths 1 and 3 whose paths live and die: the link *)
(* undefined or defined with a preference for IPv4, two outgoing flows, no *)
(* flow learned from incoming packets.                                     *)
(***************************************************************************)
XorConfigs ==
    {WithPolicy(l, "balance-xor", "optimize") : l \in {NoUserLinks, PreferringLinks(46)}}
XorFlowIds == {4, 7}

InitXor == InitWith(XorConfigs, {MAXP})

NextXor ==
    \/ AdvanceClock(MaxTime)
    \/ \E p \in FlowPaths : discovered(p, FlowPaths) /\ NominatePathToBond(p, UniformQuality)
    \/ \E p \in FlowPaths : RecordIncomingPacket(p, Unsampled, "HELLO", ZT_QOS_NO_FLOW)
    \/ \E f \in XorFlowIds : GetAppropriatePath(f, 0, 0)
    \/ ProcessBackgroundBondTasks(UniformQuality, 0, NoEntropy)

SpecXor == InitXor /\ [][NextXor]_vars

(***************************************************************************)
(* Balance-rr bonds over paths 1 and 2 (two links, neither defined by the  *)
(* user), the links' map order either way.                                 *)
(***************************************************************************)
RRPaths == {1, 2}
RRConfigs == {WithPolicy([NoUserLinks EXCEPT !.linkOrder = o], "balance-rr", "optimize") :
                  o \in {<<1, 2>>, <<2, 1>>}}

InitRR == InitWith(RRConfigs, {MAXP})

NextRR ==
    \/ AdvanceClock(MaxTime)
    \/ \E p \in RRPaths : discovered(p, RRPaths) /\ NominatePathToBond(p, UniformQuality)
    \/ \E p \in RRPaths : RecordIncomingPacket(p, Unsampled, "HELLO", ZT_QOS_NO_FLOW)
    \/ GetAppropriatePath(ZT_QOS_NO_FLOW, 0, 0)
    \/ ProcessBackgroundBondTasks(UniformQuality, 0, NoEntropy)

SpecRR == InitRR /\ [][NextRR]_vars

(***************************************************************************)
(* QoS accounting of active-backup bonds over path 3 (IPv6), its link      *)
(* undefined or defined for IPv4 only, in which case the slot of the path  *)
(* is not allowed.  Packets of three verbs and four ids, one of them       *)
(* without QoS record, go out or come in; the peer's QoS packets carry one *)
(* record with a holding time of 10, or the same record twice.  The clock  *)
(* stands at 5000, then at 5040, then at 75040.                            *)
(***************************************************************************)
QosPaths == {3}
QosConfigs ==
    {WithPolicy(l, "active-backup", "always") : l \in {NoUserLinks, PreferringLinks(4)}}
QosTimes == {TimeStep + 40, TimeStep + 70040}
QosPacketIds == {1, 2, 3, Unsampled}
QosVerbs == {"FRAME", "HELLO", "ACK"}
QosRecords ==
    LET single == QosPacketIds \X {10}
    IN  {<<r>> : r \in single} \cup {<<r, r>> : r \in single}

InitQos == InitWith(QosConfigs, {MAXP})

\* Packets go out and the peer's QoS packets come in.
NextQosOut ==
    \/ Elapse(QosTimes)
    \/ \E p \in QosPaths : discovered(p, QosPaths) /\ NominatePathToBond(p, UniformQuality)
    \/ \E p \in QosPaths, id \in QosPacketIds, v \in QosVerbs : RecordOutgoingPacket(p, id, v)
    \/ \E p \in QosPaths, rx \in QosRecords : ReceivedQoS(p, rx)
    \/ ProcessBackgroundBondTasks(UniformQuality, 0, NoEntropy)

SpecQosOut == InitQos /\ [][NextQosOut]_vars

\* Packets come in and the tick sends the QoS packets that are due.
NextQosIn ==
    \/ Elapse(QosTimes)
    \/ \E p \in QosPaths : discovered(p, QosPaths) /\ NominatePathToBond(p, UniformQuality)
    \/ \E p \in QosPaths, id \in QosPacketIds, v \in QosVerbs :
           RecordIncomingPacket(p, id, v, ZT_QOS_NO_FLOW)
    \/ ProcessBackgroundBondTasks(UniformQuality, 0, NoEntropy)

SpecQosIn == InitQos /\ [][NextQosIn]_vars

(***************************************************************************)
(* The background tick called at any rate.                                 *)
(***************************************************************************)
TickTimes ==
    {TimeStep + 400, TimeStep + 999, TimeStep + 1000, TimeStep + 1400, TimeStep + 1999,
     TimeStep + 2400, TimeStep + 7000}
TickPaths == {1}
TickConfigs ==
    {WithPolicy(NoUserLinks, p, "optimize") : p \in {"active-backup", "balance-xor"}}

InitTick == InitWith(TickConfigs, {MAXP})

NextTick ==
    \/ Wait(TickTimes)
    \/ \E p \in TickPaths : NominatePathToBond(p, UniformQuality)
    \/ \E p \in TickPaths : RecordIncomingPacket(p, Unsampled, "HELLO", ZT_QOS_NO_FLOW)
    \/ \E supported \in BOOLEAN :
          CallProcessBackgroundBondTasks(supported, UniformQuality, 0, NoEntropy)

SpecTick == InitTick /\ [][NextTick]_vars

(***************************************************************************)
(* Negotiation requests arriving at an active-backup bond of either        *)
(* re-select method, before and after its first negotiation check.         *)
(***************************************************************************)
ReqConfigs ==
    {[WithPolicy(NoUserLinks, "active-backup", m) EXCEPT !.allowPathNegotiation = TRUE] :
         m \in {"optimize", "always"}}

InitReq == InitWith(ReqConfigs, {MAXP})

NextReq ==
    \/ AdvanceClock(MaxTime)
    \/ \E p \in ABPaths : discovered(p, ABPaths) /\ NominatePathToBond(p, UniformQuality)
    \/ \E p \in ABPaths : RecordIncomingPacket(p, Unsampled, "FRAME", ZT_QOS_NO_FLOW)
    \/ ProcessBackgroundBondTasks(UniformQuality, 0, NoEntropy)
    \/ \E p \in ABPaths, u \in RemoteUtilities : ProcessIncomingPathNegotiationRequest(p, u)

SpecReq == InitReq /\ [][NextReq]_vars

(***************************************************************************)
(* Curation: an IPv4 and an IPv6 path on one link, with and without an     *)
(* address preference, under active-backup and balance-xor, followed past  *)
(* the end of the trial period.                                            *)
(***************************************************************************)
CurPaths == {1, 3}
CurConfigs ==
    {WithPolicy(l, p, "optimize") :
        l \in {NoUserLinks, PreferringLinks(4), PreferringLinks(46)},
        p \in {"active-backup", "balance-xor"}}

InitCur == InitWith(CurConfigs, {MAXP})

NextCur ==
    \/ AdvanceClock(MaxTime)
    \/ \E p \in CurPaths : Nominate(p, UniformQuality)
    \/ \E p \in CurPaths : RecordIncomingPacket(p, Unsampled, "HELLO", ZT_QOS_NO_FLOW)
    \/ ProcessBackgroundBondTasks(UniformQuality, 0, NoEntropy)

SpecCur == InitCur /\ [][NextCur]_vars

(***************************************************************************)
(* Active-backup with a primary link that carries two paths, one IPv4 and  *)
(* one IPv6, so that its slots can be preferred or not.                    *)
(***************************************************************************)
PrimPaths == {1, 3}
PrimLinks ==
    {UserLinks([l \in LinkIds |-> v], [l \in LinkIds |-> l = 1], <<1, 2>>) : v \in {0, 46}}
PrimConfigs == {WithPolicy(l, "active-backup", "optimize") : l \in PrimLinks}

InitPrim == InitWith(PrimConfigs, {MAXP})

NextPrim ==
    \/ AdvanceClock(MaxTime)
    \/ \E p \in PrimPaths : Nominate(p, UniformQuality)
    \/ \E p \in PrimPaths : RecordIncomingPacket(p, Unsampled, "HELLO", ZT_QOS_NO_FLOW)
    \/ \E u \in UninitValues : ProcessBackgroundBondTasks(UniformQuality, u, NoEntropy)

SpecPrim == InitPrim /\ [][NextPrim]_vars

(***************************************************************************)
(* Active-backup re-selecting by "optimize" over an IPv4 and an IPv6 path  *)
(* of one link, IPv6 preferred, with path negotiation allowed.  The IPv4   *)
(* path is found first; the peer sends negotiation requests; the clock     *)
(* passes the optimize interval twice, with a tick one second after the    *)
(* first passing.  Under active-backup only slot 0 is ever marked bonded,  *)
(* so the allocation of slot 0 is 0 or 255 and that of slot 1 is 0         *)
(* whatever qualities are measured.                                        *)
(***************************************************************************)
OptPaths == {1, 3}
OptTimes == {21000, 22000, 38000}
\* The utility a request of the peer carries: above the local one.
OptUtilities == {bond.localUtility + 1}
OptConfigs ==
    {[WithPolicy(PreferringLinks(64), "active-backup", "optimize")
          EXCEPT !.allowPathNegotiation = TRUE]}

InitOpt == InitWith(OptConfigs, {MAXP})

NextOpt ==
    \/ Elapse(OptTimes)
    \/ \E p \in OptPaths : discovered(p, OptPaths) /\ Nominate(p, UniformQuality)
    \/ \E p \in OptPaths : RecordIncomingPacket(p, Unsampled, "HELLO", ZT_QOS_NO_FLOW)
    \/ ReselectingTick(UniformQuality)
    \/ \E p \in OptPaths, u \in OptUtilities : ProcessIncomingPathNegotiationRequest(p, u)

SpecOpt == InitOpt /\ [][NextOpt]_vars

(***************************************************************************)
(* The failover queue of an active-backup bond without user-defined links  *)
(* over three paths, two of them on one link, found in any order; paths    *)
(* are heard or not, and the user rotates the active link at will.         *)
(***************************************************************************)
QueuePaths == {1, 2, 3}
\* A time past the end of the trial period of the paths found at the start.
QueueTimes == {21000}
QueueConfigs == {WithPolicy(NoUserLinks, "active-backup", "optimize")}

InitQueue == InitWith(QueueConfigs, {MAXP})

NextQueue ==
    \/ Elapse(QueueTimes)
    \/ \E p \in QueuePaths : Nominate(p, UniformQuality)
    \/ \E p \in QueuePaths : RecordIncomingPacket(p, Unsampled, "HELLO", ZT_QOS_NO_FLOW)
    \/ ProcessBackgroundBondTasks(UniformQuality, 0, NoEntropy)
    \/ AbForciblyRotateLink

SpecQueue == InitQueue /\ [][NextQueue]_vars

(***************************************************************************)
(* Active-backup bonds without user-defined links over paths 1, 2 and 3,   *)
(* found in the order of their numbers, re-selecting by "optimize" or on   *)
(* failure only.  The clock stands at 5000, then at 21000, when the paths  *)
(* that are not heard again have lost eligibility.  Every tick leaves on   *)
(* record the active slot it found.                                        *)
(***************************************************************************)
AvailPaths == {1, 2, 3}
AvailTimes == {21000}
AvailConfigs == {WithPolicy(NoUserLinks, "active-backup", m) : m \in {"optimize", "failure"}}

InitAvail == InitWith(AvailConfigs, {MAXP})

NextAvail ==
    \/ Elapse(AvailTimes)
    \/ \E p \in AvailPaths : discovered(p, AvailPaths) /\ NominatePathToBond(p, UniformQuality)
    \/ \E p \in AvailPaths : RecordIncomingPacket(p, Unsampled, "HELLO", ZT_QOS_NO_FLOW)
    \/ ReselectingTick(UniformQuality)

SpecAvail == InitAvail /\ [][NextAvail]_vars

(***************************************************************************)
(* The negotiation budget of an active-backup bond re-selecting by         *)
(* "optimize": frames go out on either of two paths and come in on the     *)
(* second, and the clock passes the optimize interval four times and then  *)
(* the cutoff time.                                                        *)
(***************************************************************************)
BudgetPaths == {1, 2}
\* The path the peer sends its frames on.
BudgetInbound == {2}
BudgetTimes == {21000, 37000, 53000, 69000, 130000}
BudgetConfigs ==
    {[WithPolicy(NoUserLinks, "active-backup", "optimize")
          EXCEPT !.allowPathNegotiation = TRUE]}

InitBudget == InitWith(BudgetConfigs, {MAXP})

NextBudget ==
    \/ Elapse(BudgetTimes)
    \/ \E p \in BudgetPaths : discovered(p, BudgetPaths) /\ NominatePathToBond(p, UniformQuality)
    \/ \E p \in BudgetInbound : RecordIncomingPacket(p, Unsampled, "FRAME", ZT_QOS_NO_FLOW)
    \/ \E p \in BudgetPaths : RecordOutgoingPacket(p, Unsampled, "FRAME")
    \/ ProcessBackgroundBondTasks(UniformQuality, 0, NoEntropy)

SpecBudget == InitBudget /\ [][NextBudget]_vars

(***************************************************************************)
(* Two endpoints of an active-backup bond re-selecting by "optimize", with *)
(* path negotiation allowed, over two paths: each finds the paths in its   *)
(* own order and sends its frames on a path of its choice; at 21000 ms     *)
(* both run their first negotiation check.  This endpoint's address is the *)
(* smaller or the larger of the two.                                       *)
(***************************************************************************)
PairPaths == {1, 2}
PairTimes == {21000}

InitPair == InitWith(NegConfigs, {MAXP})

\* Both endpoints find both paths before anything else happens, this one in
\* the order of their numbers and the peer starting with path first.
pairFound == \E p \in PairPaths : getNominatedPathIdx(bond, p) # MAXP
PairNominate(first) ==
    /\ ~pairFound
    /\ remote = NoRemote
    /\ \E one \in {nominatePathToBond(bond, 1, now, UniformQuality)} :
          bond' = nominatePathToBond(one, 2, now, UniformQuality)
    /\ \E one \in {nominatePathToBond(remote.bond, first, now, UniformQuality)} :
          remote' = [remote EXCEPT !.bond =
                        nominatePathToBond(one, 3 - first, now, UniformQuality)]
    /\ lastCall' = NoCall
    /\ UNCHANGED <<cfg, now, pathLastIn, lastPath, evicted, sent, threads>>

NextPair ==
    \/ \E first \in PairPaths : PairNominate(first)
    \/ pairFound /\ PairElapse(PairTimes)
    \/ \E p \in PairPaths : Heard(p)
    \/ \E p \in PairPaths : LocalFrame(p)
    \/ \E p \in PairPaths : RemoteFrame(p)
    \/ pairFound /\ LocalTick
    \/ pairFound /\ RemoteTick
    \/ DeliverToLocal
    \/ DeliverToRemote

SpecPair == InitPair /\ [][NextPair]_vars

\* Each endpoint has asked the other for a path, the two asked for different
\* paths, and both requests have arrived.
pairDisagreed ==
    /\ remote.askedByLocal # NoPath
    /\ remote.askedByRemote # NoPath
    /\ remote.askedByLocal # remote.askedByRemote
pairBothReceived == remote.toRemote = NoMessage /\ remote.toLocal = NoMessage

\* The endpoint with Bond b has taken the path asked for as its negotiated path.
adopted(b, asked) ==
    b.negotiatedPathIdx \in Slots /\ b.paths[b.negotiatedPathIdx].p = asked
kept(b) == b.negotiatedPathIdx = MAXP

\* C34: when the two endpoints ask each other for different paths and each
\* has received the other's request, exactly one of them has adopted the
\* path the other asked for as its negotiated path and the other has kept
\* its choice, whatever the two utilities are.
C34_ExactlyOneYields ==
    pairDisagreed /\ pairBothReceived
        => \/ adopted(bond, remote.askedByRemote) /\ kept(remote.bond)
           \/ adopted(remote.bond, remote.askedByLocal) /\ kept(bond)

(***************************************************************************)
(* Nominations of four paths to a bond of three slots, with link           *)
(* definitions that leave link 2 out.                                      *)
(***************************************************************************)
NomPaths == PathIds
OnlyLink(l) ==
    [userLinks |-> {l}, ipvPref |-> [k \in LinkIds |-> 0],
     primary |-> [k \in LinkIds |-> FALSE], linkOrder |-> <<1, 2>>]
NomConfigs ==
    {WithPolicy(l, p, "optimize") :
        l \in {NoUserLinks, OnlyLink(1)}, p \in {"active-backup", "balance-xor"}}

InitNom == InitWith(NomConfigs, {MAXP})

NextNom ==
    \/ AdvanceClock(2 * TimeStep)
    \/ \E p \in NomPaths : Nominate(p, UniformQuality)
    \/ ProcessBackgroundBondTasks(UniformQuality, 0, NoEntropy)

SpecNom == InitNom /\ [][NextNom]_vars

(***************************************************************************)
(* The threads and the mutexes: the timer thread runs the background sweep *)
(* while two I/O threads call the other entry points.                      *)
(***************************************************************************)
LockPolicies == {"active-backup", "broadcast", "balance-rr", "balance-xor", "balance-aware"}
LockConfigs == {WithPolicy(NoUserLinks, p, "optimize") : p \in LockPolicies}

holder(m) == {t \in Threads : m \in threads[t].held}
\* The mutex thread t acquires next, if its next step is an acquisition.
wanted(t) ==
    IF threads[t].rest # <<>> /\ Head(threads[t].rest).a = "lock"
    THEN {Head(threads[t].rest).m}
    ELSE {}

\* Thread t enters an entry point.
Begin(t) ==
    /\ threads[t].rest = <<>>
    /\ \E e \in EntryPoints(t) :
          /\ e.locks # <<>>
          /\ threads' = [threads EXCEPT ![t] = [op |-> e.op, rest |-> e.locks, held |-> {}]]
    /\ UNCHANGED <<bond, cfg, now, pathLastIn, lastPath, evicted, sent, lastCall, remote>>

\* Mutex::lock(): thread t proceeds once no thread holds the mutex.
Acquire(t) ==
    /\ wanted(t) # {}
    /\ \A m \in wanted(t) : holder(m) = {}
    /\ threads' = [threads EXCEPT ![t].rest = Tail(@), ![t].held = @ \cup wanted(t)]
    /\ UNCHANGED <<bond, cfg, now, pathLastIn, lastPath, evicted, sent, lastCall, remote>>

\* Mutex::unlock(), at the end of the guard's scope.
Release(t) ==
    /\ threads[t].rest # <<>>
    /\ Head(threads[t].rest).a = "unlock"
    /\ threads' = [threads EXCEPT ![t].rest = Tail(@),
                                  ![t].held = @ \ {Head(threads[t].rest).m},
                                  ![t].op = IF Len(threads[t].rest) = 1 THEN "idle" ELSE @]
    /\ UNCHANGED <<bond, cfg, now, pathLastIn, lastPath, evicted, sent, lastCall, remote>>

\* Thread t reads or writes the state _paths_m guards: nothing stops it.
Access(t) ==
    /\ threads[t].rest # <<>>
    /\ Head(threads[t].rest).a = "access"
    /\ threads' = [threads EXCEPT ![t].rest = Tail(@),
                                  ![t].op = IF Len(threads[t].rest) = 1 THEN "idle" ELSE @]
    /\ UNCHANGED <<bond, cfg, now, pathLastIn, lastPath, evicted, sent, lastCall, remote>>

InitLocks == InitWith(LockConfigs, {MAXP})

NextLocks ==
    \/ \E t \in Threads : Begin(t)
    \/ \E t \in Threads : Acquire(t)
    \/ \E t \in Threads : Release(t)
    \/ \E t \in Threads : Access(t)

SpecLocks == InitLocks /\ [][NextLocks]_vars

(***************************************************************************)
(* Properties.  A step is a background tick exactly when it changes        *)
(* _lastBackgroundTaskCheck; abCurated is the bond as the tick's           *)
(* curateBond and estimatePathQuality leave it, abDecision the bond as     *)
(* processActiveBackupTasks has it when it comes to its re-select          *)
(* obligations.                                                            *)
(***************************************************************************)
IsTick == bond'.lastBackgroundTaskCheck # bond.lastBackgroundTaskCheck
abCurated == tickCurated(bond, now, UniformQuality)
abDecision == abPrepare(abCurated, 0)
abNamesSlot == bond.abPathIdx \in Slots /\ bond.paths[bond.abPathIdx].p # NoPath

\* C1: active-backup failover.  When a background tick finds the active slot
\* A ineligible while another occupied slot is eligible, then after the tick
\* ab_path_idx is that slot, the head of the failover queue; A is not bonded;
\* and the last change of the active path is stamped now.
C1_FailoverOnTick ==
    [][(/\ IsTick
        /\ cfg.policy = "active-backup"
        /\ abNamesSlot
        /\ ~abCurated.paths[bond.abPathIdx].eligible
        /\ \E B \in Slots \ {bond.abPathIdx} :
               abCurated.paths[B].p # NoPath /\ abCurated.paths[B].eligible)
       => (/\ bond'.abPathIdx = Head(abDecision.abFailoverQueue)
           /\ bond'.abPathIdx # bond.abPathIdx
           /\ abCurated.paths[bond'.abPathIdx].eligible
           /\ ~bond'.paths[bond.abPathIdx].bonded
           /\ bond'.lastActiveBackupPathChange = now)]_vars

\* The switch predicate of each link-select method, as the specification
\* words it: always, the current link is not primary and the queue head is;
\* better, the same and the head's score is above the current one's;
\* optimize, the head is negotiated, or the last change is more than the
\* optimize interval ago and the head's score exceeds the current one's by
\* more than a tenth of the current allocation; failure, never.
C2_SwitchPredicate(b, t) ==
    LET head == b.paths[Head(b.abFailoverQueue)]
        cur == b.paths[b.abPathIdx]
        curPrimary == LinkPrimary(PathLink(cur.p))
        headPrimary == LinkPrimary(PathLink(head.p))
    IN  /\ b.abFailoverQueue # <<>>
        /\ \/ cfg.abLinkSelectMethod = "always" /\ ~curPrimary /\ headPrimary
           \/ /\ cfg.abLinkSelectMethod = "better" /\ ~curPrimary /\ headPrimary
              /\ head.failoverScore > cur.failoverScore
           \/ /\ cfg.abLinkSelectMethod = "optimize"
              /\ \/ head.negotiated
                 \/ /\ (t - b.lastActiveBackupPathChange) > ZT_BOND_OPTIMIZE_INTERVAL
                    /\ 10 * (head.failoverScore - cur.failoverScore) > cur.allocation

\* C2 as stated: under every link-select method, if before a background tick
\* ab_path_idx names a slot whose eligible flag is set and the method's
\* switch predicate is false, ab_path_idx is unchanged after the tick.
C2_StableIfEligibleBefore ==
    [][(/\ IsTick
        /\ cfg.policy = "active-backup"
        /\ abNamesSlot
        /\ bond.paths[bond.abPathIdx].eligible
        /\ ~C2_SwitchPredicate(abDecision, now))
       => bond'.abPathIdx = bond.abPathIdx]_vars

\* C2, amended: under every link-select method, if ab_path_idx names a slot
\* that the tick's own curation finds eligible and the method's switch
\* predicate is false when the tick decides, ab_path_idx is unchanged after
\* the tick.
C2_StableIfEligibleAtDecision ==
    [][(/\ IsTick
        /\ cfg.policy = "active-backup"
        /\ abNamesSlot
        /\ abCurated.paths[bond.abPathIdx].eligible
        /\ ~C2_SwitchPredicate(abDecision, now))
       => bond'.abPathIdx = bond.abPathIdx]_vars

\* A tick has run at this time under "better"; the active link is eligible
\* and not primary, the queue head is primary, and the active path was last
\* changed at an earlier time: the tick kept it.
C2_Witness ==
    /\ cfg.policy = "active-backup"
    /\ cfg.abLinkSelectMethod = "better"
    /\ bond.lastBackgroundTaskCheck = now
    /\ abNamesSlot
    /\ bond.paths[bond.abPathIdx].eligible
    /\ bond.abFailoverQueue # <<>>
    /\ ~abCurrentPrimary(bond) /\ abFrontPrimary(bond)
    /\ bond.lastActiveBackupPathChange < now

(***************************************************************************)
(* Flows.  A flow is newly assigned by a step when it is in the table      *)
(* after the step and was not before, or was on another slot.              *)
(***************************************************************************)
newlyAssigned(f) ==
    /\ f \in DOMAIN bond'.flows
    /\ f \in DOMAIN bond.flows => bond'.flows[f].assignedPath # bond.flows[f].assignedPath
\* The step has the effect of getAppropriatePath creating flow f.
createdByGet(f) ==
    /\ f \notin DOMAIN bond.flows
    /\ bond.numBondedPaths > 0
    /\ assignDefined(bond)
    /\ \E e \in EntropyBytes : bond' = getAppropriatePath(bond, now, f, 0, e)[1]
\* The step is a tick that moves flow f.
movedByTick(f) == IsTick /\ f \in DOMAIN bond.flows /\ newlyAssigned(f)
slotOfFlow(b, f) == b.paths[b.flows[f].assignedPath]
flowsOn(b, i) == {f \in DOMAIN b.flows : b.flows[f].assignedPath = i}

\* C3 as stated: under balance-xor and balance-aware, two getAppropriatePath
\* calls for one flow id with no curation between them return the same path,
\* whatever calls for other flows come between (calls that create flows in
\* a full table included), and only a tick changes the slot of a flow.
C3_SamePathBetweenCurations ==
    [][/\ \A f \in FlowIds :
              lastPath[f] # NoPath /\ lastPath'[f] # NoPath => lastPath'[f] = lastPath[f]
       /\ \A f \in DOMAIN bond.flows : newlyAssigned(f) => IsTick]_vars

\* C3, amended: the same, for a flow whose table entry was not removed
\* (evicted by createFlow as the oldest flow) since the earlier call.
C3_SamePathWhileInTable ==
    [][/\ \A f \in FlowIds \ evicted :
              lastPath[f] # NoPath /\ lastPath'[f] # NoPath => lastPath'[f] = lastPath[f]
       /\ \A f \in DOMAIN bond.flows : newlyAssigned(f) => IsTick]_vars

\* The table is full, a flow has been evicted from it since the last
\* curation, and a flow that was given its path before is still in it.
C3_Witness ==
    /\ allowFlowHashing
    /\ flowsSize(bond) >= ZT_FLOW_MAX_COUNT
    /\ evicted # {}
    /\ \E f \in DOMAIN bond.flows \ evicted :
           lastPath[f] # NoPath /\ bond.flows[f].lastActivity < now

\* C4: under balance-xor, when a tick finds that a bonded, eligible slot
\* with flows on it has lost its eligibility and another bonded slot
\* survives, then after the tick no flow is on the dead slot, its flow count
\* is 0, and every survivor's count is the number of flows now on it.
C4_FlowsLeaveDeadSlot ==
    [][(IsTick /\ cfg.policy = "balance-xor")
       => \A i \in Slots :
              (/\ bond.paths[i].p # NoPath /\ bond.paths[i].bonded /\ bond.paths[i].eligible
               /\ flowsOn(bond, i) # {}
               /\ ~bond'.paths[i].eligible
               /\ \E j \in Slots \ {i} : bond'.paths[j].bonded /\ bond'.paths[j].eligible)
              => (/\ flowsOn(bond', i) = {}
                  /\ bond'.paths[i].assignedFlowCount = 0
                  /\ \A j \in Slots \ {i} :
                         bond'.paths[j].bonded /\ bond'.paths[j].eligible
                         => bond'.paths[j].assignedFlowCount = Cardinality(flowsOn(bond', j)))]_vars

\* C5: every slot's assignedFlowCount is the number of flows in the table
\* whose assignedPath is that slot.
C5_FlowCount ==
    \A i \in Slots : bond.paths[i].assignedFlowCount = Cardinality(flowsOn(bond, i))

\* C6: every bonded slot is eligible.
C6_BondedImpliesEligible ==
    \A i \in Slots : bond.paths[i].bonded => bond.paths[i].eligible

\* C7: num_bonded is at most the number of slots whose bonded flag is set,
\* which is at most the number of slots.
C7_NumBondedAtMostBonded ==
    /\ bond.numBondedPaths <= Cardinality({i \in Slots : bond.paths[i].bonded})
    /\ Cardinality({i \in Slots : bond.paths[i].bonded}) <= ZT_MAX_PEER_NETWORK_PATHS

\* C8 as stated: whenever a step assigns a flow a slot (creation from an
\* outgoing packet, creation from an incoming packet, reallocation), the
\* slot is occupied and bonded.
C8_AssignedSlotBonded ==
    [][\A f \in FlowIds :
           newlyAssigned(f)
           => slotOfFlow(bond', f).p # NoPath /\ slotOfFlow(bond', f).bonded]_vars

\* C8, amended: whenever assignFlowToBondedPath assigns a flow a slot (the
\* flow is created by getAppropriatePath, or moved by a tick), the slot is
\* occupied and bonded.
C8_ChosenSlotBonded ==
    [][\A f \in FlowIds :
           (createdByGet(f) \/ movedByTick(f))
           => slotOfFlow(bond', f).p # NoPath /\ slotOfFlow(bond', f).bonded]_vars

\* A flow that getAppropriatePath created is in the table, on a bonded slot,
\* while another occupied slot is not bonded.
C8_Witness ==
    /\ allowFlowHashing
    /\ \E f \in DOMAIN bond.flows \ evicted :
           /\ lastPath[f] = slotOfFlow(bond, f).p
           /\ slotOfFlow(bond, f).bonded
    /\ \E i \in Slots : bond.paths[i].p # NoPath /\ ~bond.paths[i].bonded

\* C9 as stated: under balance-xor, every flow newly assigned by a step
\* (flows with negative ids and flows learned from an incoming packet
\* included) is on slot bond_idx_map[|id| mod num_bonded].
C9_AssignedSlotIsHash ==
    [][cfg.policy = "balance-xor"
       => \A f \in FlowIds :
              newlyAssigned(f)
              => bond'.flows[f].assignedPath
                     = bond'.bondIdxMap[Abs(f) % bond'.numBondedPaths]]_vars

\* C9, amended: under balance-xor, every flow that assignFlowToBondedPath
\* assigns (created by getAppropriatePath, or moved by a tick), negative ids
\* included, is on slot bond_idx_map[|id| mod num_bonded].
C9_ChosenSlotIsHash ==
    [][cfg.policy = "balance-xor"
       => \A f \in FlowIds :
              (createdByGet(f) \/ movedByTick(f))
              => bond'.flows[f].assignedPath
                     = bond'.bondIdxMap[Abs(f) % bond'.numBondedPaths]]_vars

\* Under balance-xor with two bonded paths, getAppropriatePath has put the
\* flow with the negative id on the second of them.
C9_Witness ==
    /\ cfg.policy = "balance-xor"
    /\ bond.numBondedPaths = 2
    /\ -7 \in DOMAIN bond.flows \ evicted
    /\ lastPath[-7] # NoPath
    /\ bond.flows[-7].assignedPath = bond.bondIdxMap[1]
    /\ bond.bondIdxMap[1] # bond.bondIdxMap[0]

\* C10: balance-rr striping.  With two bonded, eligible paths, the j-th
\* call of getAppropriatePath since the bonded set was built returns the
\* path at the current rr index, except that after every PacketsPerLink
\* calls it returns the path at the next index.
C10_Striping ==
    [][(/\ cfg.policy = "balance-rr"
        /\ Len(sent') = Len(sent) + 1
        /\ bond.numBondedPaths = 2
        /\ bond.rrIdx < 2
        /\ \A k \in {0, 1} : /\ bond.bondIdxMap[k] \in Slots
                            /\ bond.paths[bond.bondIdxMap[k]].p # NoPath
                            /\ bond.paths[bond.bondIdxMap[k]].bonded
                            /\ bond.paths[bond.bondIdxMap[k]].eligible)
       => sent'[Len(sent')] =
              IF Len(sent) > 0 /\ Len(sent) % PacketsPerLink = 0
              THEN bondedPathAt(bond, (bond.rrIdx + 1) % 2)
              ELSE bondedPathAt(bond, bond.rrIdx)]_vars


(***************************************************************************)
(* Path negotiation.  A request is in a tie when it is handled by a bond   *)
(* that re-selects by "optimize" and has run a negotiation check, arrives  *)
(* on a path the bond holds and carries the bond's own utility.            *)
(***************************************************************************)
requestTied ==
    /\ lastCall'.op = "request"
    /\ cfg.abLinkSelectMethod = "optimize"
    /\ bond.lastPathNegotiationCheck # 0
    /\ getNominatedPathIdx(bond, lastCall'.path) # MAXP
    /\ lastCall'.arg = bond.localUtility

\* C11: when a request in a tie is handled, the endpoint with the larger
\* address sets negotiatedPathIdx to the slot of the path the request came
\* on, and the endpoint with the smaller address leaves negotiatedPathIdx
\* as it is.
C11_LargerAddressYields ==
    [][requestTied =>
         IF cfg.nodeAddress > cfg.peerAddress
         THEN bond'.negotiatedPathIdx = getNominatedPathIdx(bond, lastCall'.path)
         ELSE bond'.negotiatedPathIdx = bond.negotiatedPathIdx]_vars

(***************************************************************************)
(* QoS accounting.  ackedSlot is the slot of the path a QoS packet has     *)
(* just arrived on, acked the ids among its records that the slot was      *)
(* waiting for.                                                            *)
(***************************************************************************)
ackedSlot == getNominatedPathIdx(bond, lastCall'.path)
acked ==
    {lastCall'.arg[k][1] : k \in DOMAIN lastCall'.arg} \cap DOMAIN bond.paths[ackedSlot].qosStatsOut

ackedRecord == lastCall'.arg[1]
ackedSentAt == bond.paths[ackedSlot].qosStatsOut[ackedRecord[1]]

\* C13: when a QoS packet acknowledges a recorded packet, the sample it
\* appends is ((now - sent_at) - holding_time) / 2 with the elapsed time
\* now - sent_at taken as it is: the 16 bits the handler keeps of it give
\* the same sample.
C13_SampleOfElapsedTime ==
    [][lastCall'.op = "receivedQoS" /\ ackedSlot # MAXP /\ Len(lastCall'.arg) = 1
       /\ acked # {} =>
         LET d == (now - ackedSentAt) - ackedRecord[2]
             s == bond'.paths[ackedSlot].latencySamples
         IN  s[Len(s)] = IF d >= 0 THEN d \div 2 ELSE 0 - ((0 - d) \div 2)]_vars

(***************************************************************************)
(* The flow table and its eviction.                                        *)
(***************************************************************************)
\* C14: the flow table never holds more than ZT_FLOW_MAX_COUNT flows,
\* whatever the times of last activity of its flows: a flow created in a
\* full table takes the place of one that is evicted.
C14_FlowTableBounded == flowsSize(bond) <= ZT_FLOW_MAX_COUNT

\* The flow table as forgetFlowsWhenNecessary(0, true, now) leaves it, and
\* the flows that call removes.
oldestForgotten == forgetFlowsWhenNecessary(bond, 0, TRUE, now)
forgotten == (DOMAIN bond.flows) \ (DOMAIN oldestForgotten.flows)

\* C15: on a flow table that is not empty, forgetFlowsWhenNecessary(0, true,
\* now) removes exactly one flow, a flow of the greatest age, and decrements
\* by one the assignedFlowCount of the slot of that flow (and no other).
C15_OldestForgotten ==
    bond.flows # <<>> =>
        \E f \in DOMAIN bond.flows :
            /\ forgotten = {f}
            /\ \A g \in DOMAIN bond.flows :
                   flowAge(bond.flows[g], now) <= flowAge(bond.flows[f], now)
            /\ \A i \in Slots :
                   oldestForgotten.paths[i].assignedFlowCount
                       = IF i = bond.flows[f].assignedPath
                         THEN U16(bond.paths[i].assignedFlowCount - 1)
                         ELSE bond.paths[i].assignedFlowCount

\* The ages forgetFlowsWhenNecessary is called with.
ForgetAges == {1, TimeStep - 1, ZT_PEER_PATH_EXPIRATION}

\* C16: for every age above 0, forgetFlowsWhenNecessary(age, false, now)
\* called a second time changes neither the flow table nor the
\* assignedFlowCount of any slot, and the first call leaves no flow whose
\* last activity is more than age ago.
C16_ForgetIdempotent ==
    \A age \in ForgetAges :
        LET once == forgetFlowsWhenNecessary(bond, age, FALSE, now)
            twice == forgetFlowsWhenNecessary(once, age, FALSE, now)
        IN  /\ twice.flows = once.flows
            /\ \A i \in Slots :
                   twice.paths[i].assignedFlowCount = once.paths[i].assignedFlowCount
            /\ \A f \in DOMAIN once.flows : now - once.flows[f].lastActivity <= age

\* Two flows of the table are both older than one of the ages: the first
\* call forgets both.
C16_Witness ==
    \E age \in ForgetAges :
        Cardinality({f \in DOMAIN bond.flows : flowAge(bond.flows[f], now) > age}) = 2

(***************************************************************************)
(* The map of unacknowledged packets.  sentSlot is the slot of the path a  *)
(* packet has just been sent on; the map is full when it holds             *)
(* ZT_QOS_MAX_OUTSTANDING_RECORDS records.                                 *)
(***************************************************************************)
sentSlot == getNominatedPathIdx(bond, lastCall'.path)
outstandingFull == Cardinality(DOMAIN bond.paths[sentSlot].qosStatsOut) >= ZT_QOS_MAX_OUTSTANDING_RECORDS
isRecordOutgoing == lastCall'.op = "recordOutgoingPacket" /\ sentSlot # MAXP

\* The parts of C17 that do not depend on the reading of its last clause:
\* no slot's map ever holds more than ZT_QOS_MAX_OUTSTANDING_RECORDS
\* records, and recordOutgoingPacket changes the map of the packet's slot
\* only by recording the packet, which it does only if the verb is neither
\* ACK nor QOS_MEASUREMENT and (id & (ZT_QOS_ACK_DIVISOR - 1)) is not 0.
outstandingCapped ==
    /\ \A i \in Slots :
           Cardinality(DOMAIN bond'.paths[i].qosStatsOut) <= ZT_QOS_MAX_OUTSTANDING_RECORDS
    /\ isRecordOutgoing =>
           LET id == lastCall'.arg[1]
               verb == lastCall'.arg[2]
               before == bond.paths[sentSlot].qosStatsOut
               after == bond'.paths[sentSlot].qosStatsOut
           IN  /\ after # before =>
                      /\ verb \notin {"ACK", "QOS_MEASUREMENT"}
                      /\ (id % ZT_QOS_ACK_DIVISOR) # 0
                      /\ DOMAIN after = (DOMAIN before) \cup {id}
                      /\ after[id] = now
                      /\ \A k \in DOMAIN before : k # id => after[k] = before[k]
               /\ outstandingFull => after = before

\* C17, as stated: the above, and when the map is full recordOutgoingPacket
\* changes nothing of the slot.
C17_OutstandingCappedSlotUntouched ==
    [][/\ outstandingCapped
       /\ isRecordOutgoing /\ outstandingFull => bond'.paths[sentSlot] = bond.paths[sentSlot]]_vars

\* C17, amended: when the map is full recordOutgoingPacket changes nothing
\* of the slot but packetsOut, which it increments if the packet is a frame
\* (ECHO, FRAME, EXT_FRAME) and leaves alone otherwise.
C17_OutstandingCappedFramesCounted ==
    [][/\ outstandingCapped
       /\ isRecordOutgoing /\ outstandingFull =>
              bond'.paths[sentSlot] =
                  [bond.paths[sentSlot] EXCEPT
                       !.packetsOut = IF lastCall'.arg[2] \in FrameVerbs THEN @ + 1 ELSE @]
       /\ isRecordOutgoing => \A i \in Slots : i # sentSlot => bond'.paths[i] = bond.paths[i]]_vars

\* A frame with an id that would be recorded has been sent on a slot whose
\* map is full and does not hold that id.
C17_Witness ==
    /\ lastCall.op = "recordOutgoingPacket"
    /\ lastCall.arg[2] = "FRAME"
    /\ lastCall.arg[1] % ZT_QOS_ACK_DIVISOR # 0
    /\ \E i \in Slots :
           /\ bond.paths[i].p = lastCall.path
           /\ Cardinality(DOMAIN bond.paths[i].qosStatsOut) = ZT_QOS_MAX_OUTSTANDING_RECORDS
           /\ lastCall.arg[1] \notin DOMAIN bond.paths[i].qosStatsOut
           /\ bond.paths[i].packetsOut = 1

\* C18: the map of the incoming packets a slot has yet to report
\* (qosStatsIn) never holds more than ZT_QOS_MAX_OUTSTANDING_RECORDS
\* records.
C18_ExpectationsCapped ==
    \A i \in Slots :
        Cardinality(DOMAIN bond.paths[i].qosStatsIn) <= ZT_QOS_MAX_OUTSTANDING_RECORDS


(***************************************************************************)
(* C19: on every bond, paths_mutex is acquired before flows_mutex: no      *)
(* thread acquires the bond's _paths_m while it holds the bond's _flows_m, *)
(* and no two threads wait for each other on the two mutexes of a bond.    *)
(***************************************************************************)
waitsFor(t, u) == t # u /\ wanted(t) \cap threads[u].held # {}
C19_PathsBeforeFlows ==
    \A b \in Bonds :
        /\ \A t \in Threads : paths_m(b) \in wanted(t) => flows_m(b) \notin threads[t].held
        /\ \A t, u \in Threads :
              ~(/\ waitsFor(t, u) /\ waitsFor(u, t)
                /\ wanted(t) \cup wanted(u) \subseteq {paths_m(b), flows_m(b)})
C19_Witness ==
    \E b \in Bonds : \E t, u \in Threads :
        /\ {paths_m(b), flows_m(b)} \subseteq threads[t].held
        /\ waitsFor(u, t)
        /\ threads[t].op \in {"getAppropriatePath", "recordIncomingPacket", "processBackgroundTasks"}
        /\ threads[u].op \in {"getAppropriatePath", "recordIncomingPacket", "recordOutgoingPacket",
                              "processBackgroundTasks"}

(***************************************************************************)
(* C20, as stated: no thread holds _bonds_m and _links_m at the same time. *)
(***************************************************************************)
holdsBothRegistries(t) == {bonds_m, links_m} \subseteq threads[t].held
C20_RegistriesNeverHeldTogether == \A t \in Threads : ~holdsBothRegistries(t)

(***************************************************************************)
(* C20, amended: only the background sweep holds _bonds_m and _links_m at  *)
(* the same time, and no thread acquires _bonds_m while it holds _links_m. *)
(***************************************************************************)
C20_OnlySweepHoldsBoth ==
    \A t \in Threads :
        /\ holdsBothRegistries(t) => threads[t].op = "processBackgroundTasks"
        /\ bonds_m \in wanted(t) => links_m \notin threads[t].held
C20_Witness ==
    \E t, u \in Threads :
        /\ holdsBothRegistries(t)
        /\ threads[u].op \in {"getLinkBySocket", "getLinkByName", "addCustomLink"}
        /\ waitsFor(u, t)

(***************************************************************************)
(* C21: every access to the slots, the active-backup state and             *)
(* _numBondedPaths of a bond is made by a thread that holds the bond's     *)
(* _paths_m, so no two threads are at such an access at the same time.     *)
(***************************************************************************)
touching(t) ==
    IF threads[t].rest # <<>> /\ Head(threads[t].rest).a = "access"
    THEN {Head(threads[t].rest).m}
    ELSE {}
C21_PathStateUnderPathsMutex ==
    /\ \A t \in Threads : touching(t) \subseteq threads[t].held
    /\ \A t, u \in Threads : t # u => touching(t) \cap touching(u) = {}

(***************************************************************************)
(* C22: a call of the background tick for a peer without multipath         *)
(* support, or less than ZT_BOND_BACKGROUND_TASK_MIN_INTERVAL after the    *)
(* last tick that ran, changes nothing of the bond; any other call sets    *)
(* _lastBackgroundTaskCheck to now.  So _lastBackgroundTaskCheck never     *)
(* decreases and a tick that runs does so at least the minimum interval    *)
(* after the one before.                                                   *)
(***************************************************************************)
isTickCall == lastCall'.op = "processBackgroundBondTasks"
tickThrottled ==
    ~lastCall'.arg \/ (now - bond.lastBackgroundTaskCheck) < ZT_BOND_BACKGROUND_TASK_MIN_INTERVAL
C22_TickThrottled ==
    [][/\ bond'.lastBackgroundTaskCheck >= bond.lastBackgroundTaskCheck
       /\ isTickCall /\ tickThrottled => bond' = bond
       /\ isTickCall /\ ~tickThrottled => bond'.lastBackgroundTaskCheck = now
       /\ bond'.lastBackgroundTaskCheck # bond.lastBackgroundTaskCheck =>
             bond'.lastBackgroundTaskCheck - bond.lastBackgroundTaskCheck
                 >= ZT_BOND_BACKGROUND_TASK_MIN_INTERVAL]_vars
\* A tick has run, and the clock stands less than the minimum interval after
\* it with a path nominated since: a call now is one that must change nothing.
C22_Witness ==
    /\ bond.lastBackgroundTaskCheck > 0
    /\ now > bond.lastBackgroundTaskCheck
    /\ (now - bond.lastBackgroundTaskCheck) < ZT_BOND_BACKGROUND_TASK_MIN_INTERVAL
    /\ lastCall.op = "processBackgroundBondTasks" /\ lastCall.arg
    /\ \E i \in Slots : bond.paths[i].p # NoPath

(***************************************************************************)
(* C23: a nomination of a path whose link the link definitions do not      *)
(* allow changes nothing of the bond: no slot is filled and no curation    *)
(* runs.  A link is allowed when there are no link definitions or it is    *)
(* one of the links defined; the path of an allowed link is in a slot      *)
(* after the call if it was in one before or a slot was empty.             *)
(***************************************************************************)
isNomination == lastCall'.op = "nominatePathToBond"
nominated == lastCall'.path
nominatedAllowed == cfg.userLinks = {} \/ PathLink(nominated) \in cfg.userLinks
emptySlots == {i \in Slots : bond.paths[i].p = NoPath}
C23_DisallowedNominationDropped ==
    [][isNomination =>
         /\ ~nominatedAllowed => bond' = bond
         /\ nominatedAllowed /\ (emptySlots # {} \/ getNominatedPathIdx(bond, nominated) # MAXP)
               => getNominatedPathIdx(bond', nominated) # MAXP]_vars
C23_Witness ==
    /\ lastCall.op = "nominatePathToBond"
    /\ cfg.userLinks # {} /\ PathLink(lastCall.path) \notin cfg.userLinks
    /\ \E i, j \in Slots : bond.paths[i].p # NoPath /\ bond.paths[j].p = NoPath

(***************************************************************************)
(* C24: no step changes the path of an occupied slot, and no two slots     *)
(* hold the same path.  A nomination fills at most one slot: the lowest    *)
(* empty one, with the nominated path, and only when the path's link is    *)
(* allowed and no slot held the path.                                      *)
(***************************************************************************)
filledSlots == {i \in Slots : bond'.paths[i].p # bond.paths[i].p}
noTwoSlotsSamePath ==
    \A i, j \in Slots : i # j /\ bond.paths[i].p # NoPath => bond.paths[i].p # bond.paths[j].p
C24_SlotIndexStable ==
    /\ []noTwoSlotsSamePath
    /\ [][/\ \A i \in Slots : bond.paths[i].p # NoPath => bond'.paths[i].p = bond.paths[i].p
          /\ isNomination =>
                IF nominatedAllowed /\ getNominatedPathIdx(bond, nominated) = MAXP
                   /\ emptySlots # {}
                THEN \E i \in emptySlots :
                        /\ \A j \in emptySlots : i <= j
                        /\ filledSlots = {i}
                        /\ bond'.paths[i].p = nominated
                ELSE filledSlots = {}
          /\ ~isNomination => filledSlots = {}]_vars
\* Every slot is occupied and the last call nominated a further path of an
\* allowed link, which found no empty slot.
C24_Witness ==
    /\ \A i \in Slots : bond.paths[i].p # NoPath
    /\ lastCall.op = "nominatePathToBond"
    /\ cfg.userLinks = {}
    /\ getNominatedPathIdx(bond, lastCall.path) = MAXP

(***************************************************************************)
(* C25, as stated: a request on a nominated path with a remote utility     *)
(* above the local one sets negotiatedPathIdx to the slot of the path; one *)
(* with a remote utility below it, or on a path in no slot, changes        *)
(* nothing of the bond.                                                    *)
(***************************************************************************)
isRequest == lastCall'.op = "request"
requestSlot == getNominatedPathIdx(bond, lastCall'.path)
remoteUtility == lastCall'.arg
C25_RequestAsStated ==
    [][isRequest =>
         /\ requestSlot # MAXP /\ remoteUtility > bond.localUtility
               => bond'.negotiatedPathIdx = requestSlot
         /\ requestSlot # MAXP /\ remoteUtility < bond.localUtility => bond' = bond
         /\ requestSlot = MAXP => bond' = bond]_vars

(***************************************************************************)
(* C25, amended: the request is heard only by a bond that re-selects by    *)
(* optimize and has run a negotiation check; such a bond sets              *)
(* negotiatedPathIdx, and nothing else, to the slot of the path when the   *)
(* remote utility is above the local one.  Any other bond, and a request   *)
(* with a lower utility or on a path in no slot, changes nothing.          *)
(***************************************************************************)
requestHeard == cfg.abLinkSelectMethod = "optimize" /\ bond.lastPathNegotiationCheck # 0
C25_RequestHonoured ==
    [][isRequest =>
         /\ requestHeard /\ requestSlot # MAXP /\ remoteUtility > bond.localUtility
               => bond' = [bond EXCEPT !.negotiatedPathIdx = requestSlot]
         /\ ~requestHeard => bond' = bond
         /\ requestSlot # MAXP /\ remoteUtility < bond.localUtility => bond' = bond
         /\ requestSlot = MAXP => bond' = bond]_vars
C25_Witness ==
    /\ lastCall.op = "request"
    /\ lastCall.arg > bond.localUtility
    /\ bond.negotiatedPathIdx # MAXP
    /\ bond.negotiatedPathIdx = getNominatedPathIdx(bond, lastCall.path)
    /\ bond.abPathIdx \notin {MAXP, bond.negotiatedPathIdx}

(***************************************************************************)
(* C26: under a flow-hashing policy, a slot that is bonded and eligible    *)
(* when the tick's curation starts and is found no longer eligible is,     *)
(* when curateBond returns, not bonded and marked for the reallocation of  *)
(* its flows, and that curation rebuilds the bond.                         *)
(***************************************************************************)
losesEligibility(i) ==
    /\ bond.paths[i].p # NoPath
    /\ bond.paths[i].bonded /\ bond.paths[i].eligible
    /\ ~currEligibility(bond.paths[i], now)
C26_LostSlotMarkedForReallocation ==
    [][IsTick /\ allowFlowHashing =>
         LET curated == curateBond(bond, now, FALSE)
         IN  \A i \in Slots :
                losesEligibility(i) =>
                    /\ ~curated.paths[i].bonded
                    /\ curated.paths[i].shouldReallocateFlows
                    /\ curateRebuilds(bond, now, FALSE)]_vars

(***************************************************************************)
(* C27: after a step that curates the bond (a tick or a nomination), every *)
(* occupied slot is alive exactly when its path received something less    *)
(* than the failover interval ago, and eligible exactly when it is allowed *)
(* and either received something less than the failover interval plus the  *)
(* down delay ago, the up delay having passed since it last came alive, or *)
(* was nominated less than ZT_BOND_OPTIMIZE_INTERVAL ago.                  *)
(***************************************************************************)
curates == IsTick \/ (isNomination /\ nominatedAllowed)
occupiedAfter == {i \in Slots : bond'.paths[i].p # NoPath}
aliveAfter == {i \in occupiedAfter : bond'.paths[i].alive}
C28_HealthCounts ==
    [][curates =>
         /\ bond'.numTotalLinks = Cardinality(occupiedAfter)
         /\ bond'.numAliveLinks = Cardinality(aliveAfter)
         /\ bond'.isHealthy =
               IF cfg.policy = "active-backup" THEN Cardinality(aliveAfter) >= 2
               ELSE IF cfg.policy = "broadcast" THEN Cardinality(aliveAfter) >= 1
               ELSE Cardinality(aliveAfter) = Cardinality(occupiedAfter)]_vars

(***************************************************************************)
(* C29: a tick of an active-backup bond with a user-designated primary     *)
(* link and no active path selects, among the slots the tick's curation    *)
(* leaves eligible on a primary link, the lowest preferred one; if none is *)
(* preferred, the lowest one, slot 0 included; if there is none, the       *)
(* active path stays unset.  This holds whatever the uninitialised local   *)
(* of the selection holds.                                                 *)
(***************************************************************************)
eligibleOnPrimary ==
    {i \in Slots : /\ abCurated.paths[i].p # NoPath
                   /\ abCurated.paths[i].eligible
                   /\ LinkPrimary(PathLink(abCurated.paths[i].p))}
preferredOnPrimary == {i \in eligibleOnPrimary : preferred(abCurated.paths[i])}
primaryChoice ==
    IF preferredOnPrimary # {} THEN Min(preferredOnPrimary)
    ELSE IF eligibleOnPrimary # {} THEN Min(eligibleOnPrimary)
    ELSE MAXP
C29_PrimaryInitialSelection ==
    [][/\ IsTick /\ cfg.policy = "active-backup" /\ userHasSpecifiedPrimaryLink
       /\ bond.abPathIdx = MAXP
       => \A u \in UninitValues :
             abInitialSelection(abCurated, u).abPathIdx = primaryChoice]_vars

(***************************************************************************)
(* C30: optimize hysteresis.  When a tick of an active-backup bond that    *)
(* re-selects by "optimize" finds its active slot eligible and the head of *)
(* the failover queue not negotiated, it switches to the head exactly when *)
(* the last change of the active path is more than the optimize interval   *)
(* ago and the head's score exceeds the active slot's by more than a tenth *)
(* of the active slot's allocation; a negotiated head is switched to at    *)
(* once.  Every switch stamps the last change with the current time and    *)
(* the stamp never goes back, so two score-driven switches are more than   *)
(* the optimize interval apart.                                            *)
(***************************************************************************)
optDecision(q) == abPrepare(tickCurated(bond, now, q), 0)
optHead(q) == Head(optDecision(q).abFailoverQueue)
optTick(q) ==
    /\ cfg.policy = "active-backup"
    /\ cfg.abLinkSelectMethod = "optimize"
    /\ abNamesSlot
    /\ optDecision(q).paths[bond.abPathIdx].eligible
    /\ optDecision(q).abFailoverQueue # <<>>
optScoreDriven(q) ==
    LET d == optDecision(q)
        cur == d.paths[bond.abPathIdx]
    IN  /\ ~d.paths[optHead(q)].negotiated
        /\ (now - bond.lastActiveBackupPathChange) > ZT_BOND_OPTIMIZE_INTERVAL
        /\ 10 * (d.paths[optHead(q)].failoverScore - cur.failoverScore) > cur.allocation
C30_OptimizeHysteresis ==
    [][/\ lastCall'.op = "tick" /\ optTick(lastCall'.arg[1]) =>
             LET q == lastCall'.arg[1]
             IN  /\ optHead(q) # bond.abPathIdx
                 /\ bond'.abPathIdx =
                       IF optDecision(q).paths[optHead(q)].negotiated \/ optScoreDriven(q)
                       THEN optHead(q) ELSE bond.abPathIdx
                 /\ bond'.abPathIdx # bond.abPathIdx
                       => bond'.lastActiveBackupPathChange = now
       /\ bond'.lastActiveBackupPathChange >= bond.lastActiveBackupPathChange]_vars

\* A tick has just switched on the scores: the active slot it found is
\* still eligible, the slot it made active is another one and is not
\* negotiated, and the change it found was more than the optimize interval
\* old.
C30_Witness ==
    /\ cfg.policy = "active-backup"
    /\ cfg.abLinkSelectMethod = "optimize"
    /\ lastCall.op = "tick"
    /\ lastCall.path \in Slots
    /\ bond.paths[lastCall.path].p # NoPath
    /\ bond.paths[lastCall.path].eligible
    /\ bond.abPathIdx \in Slots \ {lastCall.path}
    /\ ~bond.paths[bond.abPathIdx].negotiated
    /\ bond.lastActiveBackupPathChange = now
    /\ lastCall.arg[2] > 0
    /\ (now - lastCall.arg[2]) > ZT_BOND_OPTIMIZE_INTERVAL

queued(b) == {b.abFailoverQueue[k] : k \in 1 .. Len(b.abFailoverQueue)}
(***************************************************************************)
(* C31: after each background tick of an active-backup bond the head of    *)
(* the failover queue has the greatest failover score of all queued slots. *)
(***************************************************************************)
C31_QueueHeadIsBest ==
    [][IsTick /\ cfg.policy = "active-backup" /\ bond'.abFailoverQueue # <<>>
       => \A i \in queued(bond') :
             bond'.paths[Head(bond'.abFailoverQueue)].failoverScore
                >= bond'.paths[i].failoverScore]_vars

queueWellFormed(b) ==
    /\ \A j, k \in 1 .. Len(b.abFailoverQueue) :
           j # k => b.abFailoverQueue[j] # b.abFailoverQueue[k]
    /\ b.abPathIdx \notin queued(b)
    /\ \A i \in queued(b) : /\ i \in Slots
                             /\ b.paths[i].p # NoPath
                             /\ b.paths[i].eligible
isRotation == lastCall'.op = "abForciblyRotateLink"
(***************************************************************************)
(* C32: the failover queue of an active-backup bond is well formed after   *)
(* every background tick, and a rotation of the active link keeps it well  *)
(* formed: no slot is queued twice, the active slot is not queued, and     *)
(* every queued slot is occupied and eligible.                             *)
(***************************************************************************)
C32_QueueWellFormed ==
    [][/\ IsTick /\ cfg.policy = "active-backup" => queueWellFormed(bond')
       /\ isRotation /\ queueWellFormed(bond) => queueWellFormed(bond')]_vars

\* The user has just rotated the active link of a bond whose tick had queued
\* slots 1 and 2: slot 1 is active and slot 2 is what is left of the queue.
C32_Witness ==
    /\ cfg.policy = "active-backup"
    /\ lastCall.op = "abForciblyRotateLink"
    /\ bond.lastBackgroundTaskCheck = now
    /\ bond.lastActiveBackupPathChange = now
    /\ bond.abPathIdx = 1
    /\ bond.abFailoverQueue = <<2>>
    /\ queueWellFormed(bond)

budgetChecked == beforeNegotiationCheck(bond, now, UniformQuality, 0, NoEntropy)
budgetRequest == tickRequest(bond, now, UniformQuality, 0, NoEntropy)
budgetCutoffPassed ==
    (now - bond.lastSentPathNegotiationRequest) > ZT_PATH_NEGOTIATION_CUTOFF_TIME
budgetKept ==
    /\ bond'.numSentPathNegotiationRequests <= ZT_PATH_NEGOTIATION_TRY_COUNT
    /\ bond'.numSentPathNegotiationRequests < bond.numSentPathNegotiationRequests
          => budgetCutoffPassed
    /\ budgetRequest # NoRequest =>
          /\ mostPacketsOut(budgetChecked) \in Slots
          /\ mostPacketsIn(budgetChecked) \in Slots
          /\ mostPacketsOut(budgetChecked) # mostPacketsIn(budgetChecked)
          /\ bond'.localUtility >= 0
          /\ budgetRequest.utility = bond'.localUtility
          /\ bond.numSentPathNegotiationRequests < ZT_PATH_NEGOTIATION_TRY_COUNT
                \/ budgetCutoffPassed
          /\ bond'.lastSentPathNegotiationRequest = now
          /\ bond'.numSentPathNegotiationRequests =
                (IF budgetCutoffPassed THEN 0 ELSE bond.numSentPathNegotiationRequests) + 1
(***************************************************************************)
(* C33: the negotiation request budget.  A tick emits a request only when  *)
(* the slot with most frames out and the slot with most frames in differ,  *)
(* the local utility is not negative and fewer than TRY_COUNT requests     *)
(* have been sent since the count was last reset; the count is reset only  *)
(* when the last request is more than CUTOFF_TIME old, so it never exceeds *)
(* TRY_COUNT; and the request travels on the slot with most frames out.    *)
(***************************************************************************)
C33_RequestBudget ==
    [][IsTick => /\ budgetKept
                 /\ budgetRequest # NoRequest
                       => budgetRequest.slot = mostPacketsOut(budgetChecked)]_vars

(***************************************************************************)
(* Loss accounting of estimatePathQuality.                                 *)
(***************************************************************************)
\* The tick runs estimatePathQuality.
estimates == IsTick /\ bond'.lastQualityEstimation # bond.lastQualityEstimation

\* C35: when estimatePathQuality runs, every unacknowledged record of a
\* slot it looks at that is 5000 ms old or older leaves the slot's map and
\* the younger ones stay, and a slot that lost records this way has a
\* packet loss ratio above zero afterwards.
C35_LossAccounting ==
    [][estimates =>
          \A i \in Slots :
              bond.paths[i].p # NoPath /\ bond'.paths[i].p = bond.paths[i].p
                  /\ allowed(bond.paths[i])
              => /\ bond'.paths[i].qosStatsOut = drainQosStatsOut(bond.paths[i], now).qosStatsOut
                 /\ currentLostRecords(bond.paths[i], now) > 0
                        => bond'.paths[i].packetLossRatio > 0]_vars

(***************************************************************************)
(* Allocation and the bonded set.                                          *)
(***************************************************************************)
\* C36: in every reachable state every slot whose allocation is not 0 is
\* bonded; a slot that has left the bonded set carries no allocation.
C36_AllocationImpliesBonded ==
    \A i \in Slots : bond.paths[i].allocation # 0 => bond.paths[i].bonded

(***************************************************************************)
(* The weighted assignment of balance-aware.                               *)
(***************************************************************************)
bondedSlotsOf(b) == {i \in Slots : b.paths[i].p # NoPath /\ b.paths[i].bonded}
\* The allocation of the bonded slots up to and including slot i.
cumulativeAllocation(b, i) ==
    sumOver([j \in Slots |-> b.paths[j].allocation], {j \in bondedSlotsOf(b) : j <= i})
\* The step assigns flow f by the weighted walk.
walked(f) ==
    /\ lastCall'.op = "getAppropriatePath" /\ lastCall'.path = f
    /\ cfg.policy = "balance-aware"
    /\ f \notin DOMAIN bond.flows /\ f \in DOMAIN bond'.flows
    /\ bond.numBondedPaths > 0 /\ totalIncompleteAllocation(bond) > 0

\* C37: with at least one bonded slot and a positive allocation sum over
\* the bonded slots, the weighted walk reduces the random byte modulo that
\* sum and assigns the flow to the first bonded slot, in index order, whose
\* cumulative allocation is strictly above the reduced byte; it always finds
\* a bonded slot and never one whose allocation is 0.
C37_WeightedWalk ==
    [][\A f \in FlowIds : walked(f) =>
          LET e == lastCall'.arg % totalIncompleteAllocation(bond)
              chosen == bond'.flows[f].assignedPath
          IN  /\ chosen \in bondedSlotsOf(bond)
              /\ cumulativeAllocation(bond, chosen) > e
              /\ \A j \in bondedSlotsOf(bond) : j < chosen => cumulativeAllocation(bond, j) <= e
              /\ bond.paths[chosen].allocation # 0]_vars

(***************************************************************************)
(* The paths balance-rr returns.                                           *)
(***************************************************************************)
\* Path p is the path of a slot of the bonded set of b: a bonded, eligible
\* slot that bondIdxMap names at a position below numBondedPaths.
inBondedSet(b, p) ==
    \E k \in 0 .. (b.numBondedPaths - 1) :
        /\ b.bondIdxMap[k] \in Slots
        /\ b.paths[b.bondIdxMap[k]].p = p
        /\ b.paths[b.bondIdxMap[k]].bonded
        /\ b.paths[b.bondIdxMap[k]].eligible
\* The step is a call of getAppropriatePath under balance-rr.
rrCall == cfg.policy = "balance-rr" /\ Len(sent') = Len(sent) + 1

\* C38: under balance-rr every path getAppropriatePath returns, if any, is
\* the path of a slot that is in the bonded set at that moment, named by
\* bondIdxMap at a position below numBondedPaths, bonded and eligible,
\* however the bonded set has grown or shrunk before.
C38_ReturnsBondedPath ==
    [][rrCall /\ sent'[Len(sent')] # NoPath => inBondedSet(bond', sent'[Len(sent')])]_vars

(***************************************************************************)
(* The policy of a new bond.                                               *)
(***************************************************************************)
\* The step makes a bond; its policy code, or the base policy of the
\* template it is made from.
isNewBond == lastCall'.op = "Bond"
askedPolicy == lastCall'.path

\* C39: a bond made with a valid policy code p, or from a template whose
\* base policy is p, runs policy p whatever the process-wide default policy
\* is, with flow hashing on exactly under balance-xor and balance-aware and,
\* made without a template, with the re-selection method optimize under
\* active-backup; a bond made with a code out of range has policy NONE.
C39_PolicyAsConstructed ==
    [][isNewBond =>
          IF validPolicy(askedPolicy)
          THEN /\ cfg'.policy = PolicyName(askedPolicy)
               /\ allowFlowHashing' = (PolicyName(askedPolicy) \in {"balance-xor", "balance-aware"})
               /\ lastCall'.arg = <<>> /\ PolicyName(askedPolicy) = "active-backup"
                      => cfg'.abLinkSelectMethod = "optimize"
          ELSE cfg'.policy = "none"]_vars

(***************************************************************************)
(* Availability of active-backup.                                          *)
(***************************************************************************)
usable(b, i) == i \in Slots /\ b.paths[i].p # NoPath /\ b.paths[i].eligible

\* C40: after every background tick of an active-backup bond without
\* user-defined links, if some occupied slot is eligible then abPathIdx
\* names an occupied, eligible slot: the bond does not stay on an ineligible
\* active slot across a tick when an eligible one exists.
C40_ActiveBackupAvailable ==
    [][/\ IsTick
       /\ cfg.policy = "active-backup" /\ cfg.userLinks = {}
       /\ \E i \in Slots : usable(bond', i)
       => usable(bond', bond'.abPathIdx)]_vars

\* A tick has found the active slot no longer eligible and has left the
\* bond on another slot, occupied and eligible.
C40_Witness ==
    /\ cfg.policy = "active-backup" /\ cfg.userLinks = {}
    /\ lastCall.op = "tick"
    /\ lastCall.path \in Slots
    /\ bond.paths[lastCall.path].p # NoPath
    /\ ~bond.paths[lastCall.path].eligible
    /\ bond.abPathIdx # lastCall.path
    /\ usable(bond, bond.abPathIdx)

====
